---- MODULE Spec2Model ----
(***************************************************************************)
(* The persisted store layer of the flipcard application                   *)
(* (src/flipcard/src/lib/store.ts): the in-memory store, the durable       *)
(* localStorage slot and the state published by the zustand hook, with one *)
(* action per store operation.                                             *)
(*                                                                         *)
(* Representation.                                                         *)
(*  - A string is the sequence of its chunks: a chunk is either one        *)
(*    whitespace character (" ") or a block of text that neither starts    *)
(*    nor ends with whitespace.  The empty string is << >>.                *)
(*  - An optional value (a field that may be undefined / absent from the   *)
(*    JSON text) is << >> when absent and << v >> when present.            *)
(*  - An id is a natural number: n >= 1 is the n-th value returned by      *)
(*    generateId (distinct calls return distinct values), 0 is the empty   *)
(*    string.                                                              *)
(*  - A timestamp string is [kind, t]: kind "iso" is the canonical         *)
(*    toISOString form of instant t, "alt" another parseable spelling of   *)
(*    the same instant, "bad" a string Date.parse maps to NaN.             *)
(***************************************************************************)
EXTENDS Integers, Sequences, FiniteSets, TLC

VARIABLES
    inMemoryStore,  \* store.ts:291  let inMemoryStore
    slot,           \* window.localStorage[STORAGE_KEY]
    published,      \* decks / cardsByDeck / settings held by useStore
    storageOk,      \* what hasLocalStorage() returns in this session
    idCount,        \* number of generateId() calls made so far
    ops,            \* number of operations called so far
    last,           \* the last operation: its name, arguments and outcome
    page            \* the local state of the page component that is mounted

vars == <<inMemoryStore, slot, published, storageOk, idCount, ops, last, page>>

----------------------------------------------------------------------------
(* Bounds of the exploration *)

\* instants the system clock may return are 1..MaxTime
MaxTime == 2
\* operations called in one explored session
MaxOps == 1
\* changes of route in one explored editor session
MaxRoutes == 1

Times == 1..MaxTime

----------------------------------------------------------------------------
(* Strings *)

\* the characters String.prototype.trim removes: the space and the line
\* terminators
IsSpace(c) == c \in { " ", "\n", "\r" }

RECURSIVE trimStart(_)
trimStart(s) ==
    IF s # << >> /\ IsSpace(Head(s)) THEN trimStart(Tail(s)) ELSE s

RECURSIVE trimEnd(_)
trimEnd(s) ==
    IF s # << >> /\ IsSpace(s[Len(s)]) THEN trimEnd(SubSeq(s, 1, Len(s) - 1)) ELSE s

\* a mutant of trim: only leading whitespace is removed
trimLeadingOnly(s) == trimStart(s)

\* a mutant of trim: at most one whitespace character is removed at each end
trimOnce(s) ==
    LET t == IF s # << >> /\ IsSpace(Head(s)) THEN Tail(s) ELSE s
    IN  IF t # << >> /\ IsSpace(t[Len(t)]) THEN SubSeq(t, 1, Len(t) - 1) ELSE t

\* String.prototype.trim
trim(s) == trimEnd(trimStart(s))

None == << >>
Some(v) == << v >>

\* a mutant of falsy: no string counts as empty
falsyNever(text) == FALSE

\* !text for a string: true of the empty string only
falsy(text) == text = << >>

\* `x?.trim() || undefined` on an optional string
trimOrUndefined(d) ==
    IF d = None THEN None
    ELSE IF trim(d[1]) = << >> THEN None ELSE Some(trim(d[1]))

----------------------------------------------------------------------------
(* Timestamps *)

Iso(t) == [kind |-> "iso", t |-> t]
Alt(t) == [kind |-> "alt", t |-> t]
BadDate == [kind |-> "bad", t |-> 0]

\* !Number.isNaN(Date.parse(value)) together with .min(1)
isoDateString(ts) == ts.kind # "bad"

\* new Date(value).toISOString(); throws RangeError on an invalid date
toISOString(ts) == Iso(ts.t)

----------------------------------------------------------------------------
(* The data model: Deck, Card, Settings, StoreState (store.ts:4-29) *)

Deck(id, title, description, createdAt, updatedAt) ==
    [id |-> id, title |-> title, description |-> description,
     createdAt |-> createdAt, updatedAt |-> updatedAt]

Card(id, front, back) == [id |-> id, front |-> front, back |-> back]

defaultSettings ==
    [defaultStudyMode |-> "ordered", rememberLastDeck |-> FALSE,
     reducedMotion |-> FALSE, lastDeckId |-> None]

SettingsKeys == {"defaultStudyMode", "rememberLastDeck", "reducedMotion", "lastDeckId"}

\* A Partial<Settings>: every key is absent (None) or present (Some(value)).
NoChanges == [k \in SettingsKeys |-> None]
AsPartial(settings) == [k \in SettingsKeys |-> Some(settings[k])]

\* In a record read from the durable slot a key may also hold a value of the
\* wrong type (a number where a boolean is expected, ...): WrongType(d), d being
\* the default of the key. Which value it is makes no difference to the schema.
WrongType(d) == << d, d >>
IsWrongType(x) == Len(x) = 2

\* a mutant of Spread: the keys of b are ignored
SpreadFirst(a, b) == a

\* object spread { ...a, ...b } of two partial settings objects
Spread(a, b) == [k \in SettingsKeys |-> IF b[k] # None THEN b[k] ELSE a[k]]

EmptyCards == [d \in {} |-> << >>]

\* cardsByDeck[deckId] ?? []
CardsOf(cardsByDeck, deckId) ==
    IF deckId \in DOMAIN cardsByDeck THEN cardsByDeck[deckId] ELSE << >>

DeckIds(store) == {store.decks[i].id : i \in 1..Len(store.decks)}

\* decks.findIndex((item) => item.id === deckId); 0 stands for -1
FindDeck(decks, deckId) ==
    IF \E i \in 1..Len(decks) : decks[i].id = deckId
    THEN CHOOSE i \in 1..Len(decks) :
            decks[i].id = deckId /\ \A j \in 1..(i - 1) : decks[j].id # deckId
    ELSE 0

\* a mutant of FindCard: a card that is not found counts as the first one
FindCardOrFirst(cards, cardId) ==
    IF \E i \in 1..Len(cards) : cards[i].id = cardId
    THEN CHOOSE i \in 1..Len(cards) :
            cards[i].id = cardId /\ \A j \in 1..(i - 1) : cards[j].id # cardId
    ELSE IF cards # << >> THEN 1 ELSE 0

\* cards.findIndex((item) => item.id === cardId); 0 stands for -1
FindCard(cards, cardId) ==
    IF \E i \in 1..Len(cards) : cards[i].id = cardId
    THEN CHOOSE i \in 1..Len(cards) :
            cards[i].id = cardId /\ \A j \in 1..(i - 1) : cards[j].id # cardId
    ELSE 0

\* a mutant of RemoveAt: splice(index), which removes everything from index on
RemoveFrom(seq, i) == SubSeq(seq, 1, i - 1)

\* a mutant of push: the element is put first
pushFirst(seq, x) == << x >> \o seq

\* array.push(x)
push(seq, x) == Append(seq, x)

\* array.splice(index, 1)
RemoveAt(seq, i) == SubSeq(seq, 1, i - 1) \o SubSeq(seq, i + 1, Len(seq))

----------------------------------------------------------------------------
(* Sample-data seeder *)

Str(text) == << text >>

SampleCards1 ==
    << <<"Breathing cadence", "Inhale 4, hold 4, exhale 6 to reset focus.">>,
       <<"Posture cue", "Relax your shoulders and lengthen your spine.">>,
       <<"Micro-break idea", "Stand, stretch, and sip water between review blocks.">> >>

SampleCards2 ==
    << <<"Philippians 4:13", "I can do all things through Christ who strengthens me.">>,
       <<"Jeremiah 29:11", "For I know the plans I have for you, declares the Lord, plans for welfare and not for evil, to give you a future and a hope.">>,
       <<"Romans 8:28", "And we know that for those who love God all things work together for good, for those who are called according to his purpose.">>,
       <<"Psalm 23:1", "The Lord is my shepherd; I shall not want.">>,
       <<"Isaiah 41:10", "Fear not, for I am with you; be not dismayed, for I am your God; I will strengthen you, I will help you, I will uphold you with my righteous right hand.">>,
       <<"Proverbs 3:5-6", "Trust in the Lord with all your heart, and do not lean on your own understanding. In all your ways acknowledge him, and he will make straight your paths.">>,
       <<"Matthew 11:28", "Come to me, all who labor and are heavy laden, and I will give you rest.">>,
       <<"Joshua 1:9", "Be strong and courageous. Do not be frightened, and do not be dismayed, for the Lord your God is with you wherever you go.">>,
       <<"Psalm 46:10", "Be still, and know that I am God. I will be exalted among the nations, I will be exalted in the earth!">>,
       <<"1 Corinthians 13:4-5", "Love is patient and kind; love does not envy or boast; it is not arrogant or rude. It does not insist on its own way; it is not irritable or resentful.">> >>

\* number of generateId() calls one createSampleStore() makes
SampleIdCount == 2 + Len(SampleCards1) + Len(SampleCards2)

\* the value of the next generateId() call when n calls were made before;
\* crypto.randomUUID never returns a value it returned before
generateId(n) == n + 1

\* createSampleStore() at instant now, when n generateId() calls were made before
createSampleStore(now, n) ==
    LET deckId1 == generateId(n)
        deckId2 == generateId(n + 1)
        first1 == n + 2
        first2 == n + 2 + Len(SampleCards1)
    IN  [decks |->
            << Deck(deckId1, Str("Mindful Moments"),
                    Some(Str("Quick grounding prompts for serene study sessions.")),
                    Iso(now), Iso(now)),
               Deck(deckId2, Str("Bible Verses"),
                    Some(Str("Scripture references and verses for meditation and study.")),
                    Iso(now), Iso(now)) >>,
         cardsByDeck |->
            [d \in {deckId1, deckId2} |->
                IF d = deckId1
                THEN [i \in 1..Len(SampleCards1) |->
                        Card(generateId(first1 + i - 1),
                             Str(SampleCards1[i][1]), Str(SampleCards1[i][2]))]
                ELSE [i \in 1..Len(SampleCards2) |->
                        Card(generateId(first2 + i - 1),
                             Str(SampleCards2[i][1]), Str(SampleCards2[i][2]))]],
         settings |-> AsPartial(defaultSettings)]

----------------------------------------------------------------------------
(* Normalizer *)

\* a mutant of normalizeSettings: lastDeckId is kept whatever rememberLastDeck is
normalizeSettingsKeepLast(settings) ==
    LET merged == Spread(AsPartial(defaultSettings), settings)
    IN  [defaultStudyMode |->
            IF merged.defaultStudyMode[1] = "shuffle" THEN "shuffle" ELSE "ordered",
         rememberLastDeck |-> merged.rememberLastDeck[1],
         reducedMotion |-> merged.reducedMotion[1],
         lastDeckId |-> merged.lastDeckId[1]]

\* normalizeSettings(settings), settings a Partial<Settings> (NoChanges for undefined)
normalizeSettings(settings) ==
    LET merged == Spread(AsPartial(defaultSettings), settings)
        rememberLastDeck == merged.rememberLastDeck[1]
    IN  [defaultStudyMode |->
            IF merged.defaultStudyMode[1] = "shuffle" THEN "shuffle" ELSE "ordered",
         rememberLastDeck |-> rememberLastDeck,
         reducedMotion |-> merged.reducedMotion[1],
         lastDeckId |-> IF rememberLastDeck THEN merged.lastDeckId[1] ELSE None]

\* new Date(x).toISOString() throws a RangeError on some deck of the store
normalizeThrows(store) ==
    \E i \in 1..Len(store.decks) :
        \/ ~isoDateString(store.decks[i].createdAt)
        \/ ~isoDateString(store.decks[i].updatedAt)

\* a mutant of normalizeStore: the card lists are copied, not rebuilt per deck
normalizeStoreKeepCards(store) ==
    [decks |->
        [i \in 1..Len(store.decks) |->
            LET deck == store.decks[i]
            IN  Deck(deck.id, trim(deck.title), trimOrUndefined(deck.description),
                     toISOString(deck.createdAt), toISOString(deck.updatedAt))],
     cardsByDeck |->
        [d \in DOMAIN store.cardsByDeck |->
            [j \in 1..Len(store.cardsByDeck[d]) |->
                LET card == store.cardsByDeck[d][j]
                IN  Card(card.id, trim(card.front), trim(card.back))]],
     settings |-> normalizeSettings(store.settings)]

\* normalizeStore(store), for a store on which it does not throw; store.settings
\* is a Partial<Settings>, the result's settings a Settings
normalizeStore(store) ==
    [decks |->
        [i \in 1..Len(store.decks) |->
            LET deck == store.decks[i]
            IN  Deck(deck.id, trim(deck.title), trimOrUndefined(deck.description),
                     toISOString(deck.createdAt), toISOString(deck.updatedAt))],
     cardsByDeck |->
        [d \in DeckIds(store) |->
            LET cards == CardsOf(store.cardsByDeck, d)
            IN  [j \in 1..Len(cards) |->
                    Card(cards[j].id, trim(cards[j].front), trim(cards[j].back))]],
     settings |-> normalizeSettings(store.settings)]

----------------------------------------------------------------------------
(* Schema validator *)

deckSchemaOk(deck) ==
    /\ deck.id # 0
    /\ Len(deck.title) >= 1
    /\ isoDateString(deck.createdAt)
    /\ isoDateString(deck.updatedAt)

cardSchemaOk(card) ==
    /\ card.id # 0
    /\ Len(card.front) >= 1
    /\ Len(card.back) >= 1

\* settingsSchema does not throw: lastDeckId, the one key without .catch, is a
\* string, null or absent
settingsSchemaOk(settings) == ~IsWrongType(settings.lastDeckId)

\* settingsSchema: a key that is absent or holds a value the key's type rejects
\* falls back to its default (.catch); lastDeckId null or absent becomes
\* undefined
settingsSchema(settings) ==
    [defaultStudyMode |->
        IF Len(settings.defaultStudyMode) = 1 /\ settings.defaultStudyMode[1] \in {"ordered", "shuffle"}
        THEN settings.defaultStudyMode[1] ELSE defaultSettings.defaultStudyMode,
     rememberLastDeck |->
        IF Len(settings.rememberLastDeck) = 1
        THEN settings.rememberLastDeck[1] ELSE defaultSettings.rememberLastDeck,
     reducedMotion |->
        IF Len(settings.reducedMotion) = 1
        THEN settings.reducedMotion[1] ELSE defaultSettings.reducedMotion,
     lastDeckId |->
        IF Len(settings.lastDeckId) = 1 THEN settings.lastDeckId[1] ELSE None]

\* storeSchema.parse(store) does not throw
storeSchemaOk(store) ==
    /\ \A i \in 1..Len(store.decks) : deckSchemaOk(store.decks[i])
    /\ \A d \in DOMAIN store.cardsByDeck :
          \A j \in 1..Len(store.cardsByDeck[d]) : cardSchemaOk(store.cardsByDeck[d][j])
    /\ store.settings # None => settingsSchemaOk(store.settings[1])
    /\ \A i \in 1..Len(store.decks) : store.decks[i].id \in DOMAIN store.cardsByDeck

\* the value storeSchema.parse(store) returns when it does not throw;
\* store.settings is an optional Partial<Settings>
storeSchemaParse(store) ==
    [decks |->
        [i \in 1..Len(store.decks) |->
            LET deck == store.decks[i]
            IN  Deck(deck.id, deck.title, trimOrUndefined(deck.description),
                     deck.createdAt, deck.updatedAt)],
     cardsByDeck |-> store.cardsByDeck,
     settings |-> IF store.settings = None THEN None
                  ELSE Some(settingsSchema(store.settings[1]))]

----------------------------------------------------------------------------
(* Persistence adapter *)

\* The content of the durable slot: kind "null" when getItem returns null,
\* "garbage" for a text JSON.parse rejects, "json" for a JSON text, whose parsed
\* value is `value` (settings an optional Partial<Settings>).
NoValue == [decks |-> << >>, cardsByDeck |-> EmptyCards, settings |-> None]
NullSlot == [kind |-> "null", value |-> NoValue]
GarbageSlot == [kind |-> "garbage", value |-> NoValue]
JsonSlot(value) == [kind |-> "json", value |-> value]

\* JSON.parse(JSON.stringify(validated)): a key whose value is undefined is
\* left out of the text
JSONStringify(validated) ==
    [decks |-> validated.decks,
     cardsByDeck |-> validated.cardsByDeck,
     settings |->
        IF validated.settings = None THEN None
        ELSE Some([k \in SettingsKeys |->
                    IF k = "lastDeckId" /\ validated.settings[1][k] = None
                    THEN None ELSE Some(validated.settings[1][k])])]

\* a StoreState as the argument of storeSchema.parse / normalizeStore
AsInput(store) ==
    [decks |-> store.decks, cardsByDeck |-> store.cardsByDeck,
     settings |-> Some(AsPartial(store.settings))]

\* persist(store) when setItem succeeds iff writeOk: how it ends
\* ("ok", "invalid": storeSchema.parse throws, "writeFailed": setItem throws)
persistOutcome(store, available, writeOk) ==
    IF ~available THEN "ok"
    ELSE IF ~storeSchemaOk(AsInput(store)) THEN "invalid"
    ELSE IF ~writeOk THEN "writeFailed"
    ELSE "ok"

\* the slot after persist(store), old being the slot before
persistSlot(store, old, available, writeOk) ==
    IF persistOutcome(store, available, writeOk) = "ok" /\ available
    THEN JsonSlot(JSONStringify(storeSchemaParse(AsInput(store))))
    ELSE old

----------------------------------------------------------------------------
(* Hydration *)

\* a mutant of seedResult: the sample store is not written to the slot
seedResultUnsaved(old, available, now, n, writeOk) ==
    [throws |-> FALSE,
     store |-> normalizeStore(createSampleStore(now, n)),
     slot |-> old,
     idCount |-> n + SampleIdCount,
     seeded |-> TRUE]

\* the sample branch of hydrateFromStorage: normalizeStore(createSampleStore())
\* followed by persist(sample) unless storage is unavailable
seedResult(old, available, now, n, writeOk) ==
    LET sample == normalizeStore(createSampleStore(now, n))
    IN  [throws |-> persistOutcome(sample, available, writeOk) # "ok",
         store |-> sample,
         slot |-> persistSlot(sample, old, available, writeOk),
         idCount |-> n + SampleIdCount,
         seeded |-> TRUE]

\* a mutant of hydrateTryOk: the record is not validated before it is normalized
hydrateTryAny(raw, writeOk) ==
    /\ raw.kind = "json"
    /\ Len(raw.value.decks) # 0
    /\ \A i \in 1..Len(raw.value.decks) :
          isoDateString(raw.value.decks[i].createdAt) /\ isoDateString(raw.value.decks[i].updatedAt)
    /\ (raw.value.settings # None => settingsSchemaOk(raw.value.settings[1]))
    /\ LET parsed == storeSchemaParse(raw.value)
           normalized ==
               normalizeStore([decks |-> parsed.decks,
                               cardsByDeck |-> parsed.cardsByDeck,
                               settings |-> IF parsed.settings = None
                                            THEN AsPartial(defaultSettings)
                                            ELSE AsPartial(parsed.settings[1])])
       IN  persistOutcome(normalized, TRUE, writeOk) = "ok"

\* the try block of hydrateFromStorage succeeds on the slot content raw
hydrateTryOk(raw, writeOk) ==
    /\ raw.kind = "json"
    /\ storeSchemaOk(raw.value)
    /\ Len(raw.value.decks) # 0
    /\ LET parsed == storeSchemaParse(raw.value)
           normalized ==
               normalizeStore([decks |-> parsed.decks,
                               cardsByDeck |-> parsed.cardsByDeck,
                               settings |-> IF parsed.settings = None
                                            THEN AsPartial(defaultSettings)
                                            ELSE AsPartial(parsed.settings[1])])
       IN  persistOutcome(normalized, TRUE, writeOk) = "ok"

\* hydrateFromStorage() at instant now, when n generateId() calls were made
\* before; w1 and w2 tell whether its first and second setItem succeed
hydrateFromStorage(old, available, now, n, w1, w2) ==
    IF ~available THEN seedResult(old, FALSE, now, n, TRUE)
    ELSE IF old.kind = "null" THEN seedResult(old, TRUE, now, n, w1)
    ELSE IF hydrateTryOk(old, w1)
    THEN LET parsed == storeSchemaParse(old.value)
             normalized ==
                 normalizeStore([decks |-> parsed.decks,
                                 cardsByDeck |-> parsed.cardsByDeck,
                                 settings |-> IF parsed.settings = None
                                              THEN AsPartial(defaultSettings)
                                              ELSE AsPartial(parsed.settings[1])])
         IN  [throws |-> FALSE,
              store |-> normalized,
              slot |-> persistSlot(normalized, old, TRUE, w1),
              idCount |-> n,
              seeded |-> FALSE]
    ELSE seedResult(old, TRUE, now, n, w2)

----------------------------------------------------------------------------
(* Read operations *)

\* a mutant of ComesBefore: the order is reversed
ComesAfter(a, b) ==
    IF a.kind = b.kind THEN a.t > b.t ELSE a.kind # "iso"

\* a.localeCompare(b) < 0 on two timestamp strings: canonical ISO strings of
\* the years 0000-9999 are ordered as their instants; another spelling is
\* ordered by its characters, here after every canonical string
ComesBefore(a, b) ==
    IF a.kind = b.kind THEN a.t < b.t ELSE a.kind = "iso"

\* insertion of deck into decks, sorted by updatedAt descending, after the
\* decks that do not come after it (Array.prototype.sort is stable)
RECURSIVE InsertSorted(_, _)
InsertSorted(decks, deck) ==
    IF decks = << >> THEN << deck >>
    ELSE IF ComesBefore(Head(decks).updatedAt, deck.updatedAt)
         THEN << deck >> \o decks
         ELSE << Head(decks) >> \o InsertSorted(Tail(decks), deck)

RECURSIVE SortDecks(_, _)
SortDecks(decks, n) ==
    IF n = 0 THEN << >> ELSE InsertSorted(SortDecks(decks, n - 1), decks[n])

\* listDecks() on the in-memory store `store`
listDecks(store) == SortDecks(store.decks, Len(store.decks))

\* listCards(deckId) on the in-memory store `store`
listCards(store, deckId) == CardsOf(store.cardsByDeck, deckId)

----------------------------------------------------------------------------
(* Inputs of the explored sessions *)

\* ids that are not values of generateId(): the fixed ids of the test fixtures
DeckExisting == -1
DeckStudy == -2
CardOne == -3
CardTwo == -4
DemoDeck == -5

Blank == { << >>, << " " >> }
TitleInputs == Blank \cup { << " ", "Calm Flow", " " >> }
DescriptionInputs == { None, Some(<< " ", "steady focus", " " >>) }
FrontInputs == { << " " >>, << " ", "Front prompt", " " >> }
BackInputs == { << >>, << " ", "Back response", " " >> }

\* the store of the store tests (baseStore) and of the study tests (makeStore)
baseStore ==
    [decks |-> << Deck(DeckExisting, Str("Existing Deck"), Some(Str("Original description")),
                       Iso(1), Iso(1)) >>,
     cardsByDeck |-> [d \in {DeckExisting} |-> << >>],
     settings |-> AsPartial(defaultSettings)]

makeStore ==
    [decks |-> << Deck(DeckStudy, Str("Presence Drills"),
                       Some(Str("Short prompts for focus resets.")), Iso(1), Iso(1)) >>,
     cardsByDeck |-> [d \in {DeckStudy} |->
                        << Card(CardOne, Str("First prompt"), Str("First answer")),
                           Card(CardTwo, Str("Second prompt"), Str("Second answer")) >>],
     settings |-> AsPartial(defaultSettings)]

\* a store an earlier session left: two decks, the first with the title the
\* explored createDeck calls use, lastDeckId naming the second
twoDeckStore ==
    [decks |-> << Deck(DeckExisting, Str("Calm Flow"), None, Iso(1), Iso(1)),
                  Deck(DeckStudy, Str("Presence Drills"),
                       Some(Str("Short prompts for focus resets.")), Iso(2), Iso(2)) >>,
     cardsByDeck |-> [d \in {DeckExisting, DeckStudy} |->
                        IF d = DeckExisting THEN << >>
                        ELSE << Card(CardOne, Str("First prompt"), Str("First answer")),
                                Card(CardTwo, Str("Second prompt"), Str("Second answer")) >>],
     settings |-> [AsPartial(defaultSettings) EXCEPT !.rememberLastDeck = Some(TRUE),
                                                    !.lastDeckId = Some(Some(DeckStudy))]]

\* a store the schema accepts and no operation would produce: untrimmed text,
\* a blank description, a non-canonical timestamp, a card list without a deck,
\* lastDeckId set while rememberLastDeck is false
looseStore ==
    [decks |-> << Deck(DeckExisting, << " ", " ", "Existing Deck", " ", " " >>, Some(<< " " >>),
                       Alt(1), Iso(1)) >>,
     cardsByDeck |-> [d \in {DeckExisting, DeckStudy} |->
                        IF d = DeckStudy THEN << >>
                        ELSE << Card(CardOne, << " ", "First prompt" >>,
                                     << "First answer", " " >>) >>],
     settings |-> [AsPartial(defaultSettings) EXCEPT !.lastDeckId = Some(Some(DeckStudy))]]

\* a store with a blank title and a deck that has no card list
brokenStore ==
    [decks |-> << Deck(DeckExisting, << " " >>, None, Iso(1), Iso(1)) >>,
     cardsByDeck |-> EmptyCards,
     settings |-> AsPartial(defaultSettings)]

\* a store with a createdAt that is no date
undatedStore ==
    [baseStore EXCEPT !.decks = << Deck(DeckExisting, Str("Existing Deck"), None,
                                        BadDate, Iso(1)) >>]

\* a store whose deck has no card list, and one whose deck has no title
unlistedStore == [baseStore EXCEPT !.cardsByDeck = EmptyCards]
untitledStore ==
    [baseStore EXCEPT !.decks = << Deck(DeckExisting, << >>, None, Iso(1), Iso(1)) >>]

\* a store whose deck was updated before it was created
backdatedStore ==
    [baseStore EXCEPT !.decks = << Deck(DeckExisting, Str("Existing Deck"), None,
                                        Iso(2), Iso(1)) >>]

\* a store in which two cards of one deck, and a card of another deck, have
\* the same id
repeatedIdStore ==
    [decks |-> << Deck(DeckExisting, Str("Existing Deck"), None, Iso(1), Iso(1)),
                  Deck(DeckStudy, Str("Presence Drills"), None, Iso(1), Iso(1)) >>,
     cardsByDeck |-> [d \in {DeckExisting, DeckStudy} |->
                        IF d = DeckStudy
                        THEN << Card(CardOne, Str("First prompt"), Str("First answer")) >>
                        ELSE << Card(CardOne, Str("First prompt"), Str("First answer")),
                                Card(CardOne, Str("Second prompt"), Str("Second answer")) >>],
     settings |-> AsPartial(defaultSettings)]

\* a store without decks
emptyStore ==
    [decks |-> << >>, cardsByDeck |-> EmptyCards, settings |-> AsPartial(defaultSettings)]

SaveInputs ==
    { baseStore, makeStore, looseStore, brokenStore, undatedStore, backdatedStore,
      repeatedIdStore }

AsJson(store) ==
    JsonSlot([decks |-> store.decks, cardsByDeck |-> store.cardsByDeck,
              settings |-> Some(store.settings)])

\* the record of makeStore with other settings
WithSettings(settings) ==
    JsonSlot([decks |-> makeStore.decks, cardsByDeck |-> makeStore.cardsByDeck,
              settings |-> settings])

\* records whose settings lack keys or hold values of the wrong type: no
\* settings at all, an empty settings object, wrong types under the three keys
\* that have a .catch, and a wrong type under lastDeckId
SettingsRecords ==
    { WithSettings(None),
      WithSettings(Some(NoChanges)),
      WithSettings(Some([defaultStudyMode |-> Some("fast"),
                         rememberLastDeck |-> WrongType(FALSE),
                         reducedMotion |-> WrongType(FALSE),
                         lastDeckId |-> Some(Some(DeckStudy))])),
      WithSettings(Some([AsPartial(defaultSettings) EXCEPT
                            !.defaultStudyMode = Some("shuffle"),
                            !.rememberLastDeck = Some(TRUE),
                            !.lastDeckId = WrongType(None)])) }

\* what the durable slot may hold when the module is loaded, or after another
\* writer of the same origin has replaced it
RawSlots ==
    { NullSlot, GarbageSlot, AsJson(twoDeckStore), AsJson(looseStore), AsJson(brokenStore),
      AsJson(unlistedStore), AsJson(untitledStore), AsJson(undatedStore),
      AsJson(backdatedStore), AsJson(repeatedIdStore), AsJson(emptyStore) }
    \cup SettingsRecords

\* the deck ids a caller passes: those of the store and one that is not there
DeckIdArgs == DeckIds(inMemoryStore) \cup { DemoDeck }

\* the card ids a caller passes: the first card of every deck, and one that is
\* in no deck
CardIdArgs ==
    { inMemoryStore.cardsByDeck[d][1].id :
        d \in { x \in DOMAIN inMemoryStore.cardsByDeck : inMemoryStore.cardsByDeck[x] # << >> } }
    \cup { CardTwo }

----------------------------------------------------------------------------
(* The record of the last operation *)

\* op: the operation; outcome: "ok", "rejected" (it threw before mutateStore
\* replaced anything; reason tells why), "invalid" or "writeFailed" (persist
\* threw), "seeded" (refresh seeded the sample store; its reason is "quota" when
\* one of the setItem calls it may make throws); deckId, cardId, title: its
\* arguments, front and back those of an addCard that was not rejected;
\* now: the instant it read from the clock; newId: the id it generated;
\* changes: the Partial<Settings> passed to updateSettings, or the lastDeckId
\* passed to setLastDeckId; raw: what refresh read from the durable slot; prev:
\* the operation called before this one
NoOp ==
    [op |-> "load", outcome |-> "ok", reason |-> "", deckId |-> 0, cardId |-> 0,
     now |-> 0, title |-> None, description |-> None, front |-> None, back |-> None,
     newId |-> 0, file |-> None,
     changes |-> NoChanges, raw |-> NullSlot,
     prev |-> [op |-> "none", outcome |-> "ok", changes |-> NoChanges]]

Call(op, outcome, args) ==
    [args EXCEPT !.op = op, !.outcome = outcome,
                 !.prev = [op |-> last.op, outcome |-> last.outcome,
                           changes |-> last.changes]]

\* The explored sessions: MaxOps calls of any operation, and after them one
\* more call of refresh or updateSettings.
FollowUpOps == {"refresh", "updateSettings"}
Budget(op) == IF op \in FollowUpOps THEN MaxOps + 1 ELSE MaxOps

\* the operation throws before mutateStore replaces anything
Rejects(op, reason, args) ==
    /\ ops < MaxOps
    /\ ops' = ops + 1
    /\ last' = [Call(op, "rejected", args) EXCEPT !.reason = reason]
    /\ UNCHANGED <<inMemoryStore, slot, published, storageOk, idCount>>

\* a mutant of Throws: what the mutator did to the draft before it threw is
\* in the in-memory store
ThrowsKeepsDraft(op, reason, args, draft) ==
    /\ ops < MaxOps
    /\ ops' = ops + 1
    /\ last' = [Call(op, "rejected", args) EXCEPT !.reason = reason]
    /\ inMemoryStore' = [draft EXCEPT !.settings = inMemoryStore.settings]
    /\ UNCHANGED <<slot, published, storageOk, idCount>>

\* the mutator throws inside mutateStore after it has made draft of the copy
\* snapshot() gave it: the lines after the mutator call do not run, and the
\* draft is dropped
Throws(op, reason, args, draft) == Rejects(op, reason, args)

----------------------------------------------------------------------------
(* Store engine *)

\* a mutant of mutateStore: the useStore action publishes nothing
mutateStoreSilent(op, args, draft) ==
    \E writeOk \in BOOLEAN :
        /\ ops < Budget(op)
        /\ storageOk \/ writeOk
        /\ inMemoryStore' = normalizeStore(draft)
        /\ last' = Call(op, persistOutcome(inMemoryStore', storageOk, writeOk), args)
        /\ slot' = persistSlot(inMemoryStore', slot, storageOk, writeOk)
        /\ ops' = ops + 1
        /\ UNCHANGED <<storageOk, published>>

\* The rest of mutateStore once the mutator has returned draft (normalize,
\* replace inMemoryStore, persist), followed by the set(...) of the useStore
\* action, which runs only when mutateStore returns.
mutateStore(op, args, draft) ==
    \E writeOk \in BOOLEAN :
        /\ ops < Budget(op)
        /\ storageOk \/ writeOk
        /\ inMemoryStore' = normalizeStore(draft)
        /\ last' = Call(op, persistOutcome(inMemoryStore', storageOk, writeOk), args)
        /\ slot' = persistSlot(inMemoryStore', slot, storageOk, writeOk)
        /\ published' = IF last'.outcome = "ok" THEN inMemoryStore' ELSE published
        /\ ops' = ops + 1
        /\ UNCHANGED storageOk

\* mutateStore and the set(...) that follows it when a page calls the useStore
\* action: the calls of a page session are not counted
pageMutation(op, args, draft) ==
    \E writeOk \in BOOLEAN :
        /\ storageOk \/ writeOk
        /\ inMemoryStore' = normalizeStore(draft)
        /\ last' = Call(op, persistOutcome(inMemoryStore', storageOk, writeOk), args)
        /\ slot' = persistSlot(inMemoryStore', slot, storageOk, writeOk)
        /\ published' = IF last'.outcome = "ok" THEN inMemoryStore' ELSE published
        /\ UNCHANGED <<storageOk, ops>>

\* the module is loaded (store.ts:291) with one of raws in the durable slot
StoreInit(raws) ==
    \E available \in BOOLEAN, raw \in raws, w1 \in BOOLEAN :
        LET h == hydrateFromStorage(raw, available, 1, 0, w1, TRUE)
        IN  /\ ~h.throws
            /\ available \/ raw = NullSlot
            /\ storageOk = available
            /\ inMemoryStore = h.store
            /\ published = h.store
            /\ slot = h.slot
            /\ idCount = h.idCount
            /\ ops = 0
            /\ last = [NoOp EXCEPT !.outcome = IF h.seeded THEN "seeded" ELSE "ok"]

\* no page component is mounted: the store is called directly, as the store
\* tests do
NoPage == [name |-> "none"]

Init ==
    /\ StoreInit(RawSlots)
    /\ page = NoPage

\* the draft once the mutator of createDeck has returned
createDeckDraft(store, deck) ==
    [decks |-> Append(store.decks, deck),
     cardsByDeck |->
         [d \in DOMAIN store.cardsByDeck \cup {deck.id} |->
             IF d = deck.id THEN << >> ELSE store.cardsByDeck[d]],
     settings |-> AsPartial(store.settings)]

createDeck(title, description) ==
    LET trimmedTitle == trim(title)
        rejected == [NoOp EXCEPT !.title = Some(title)]
    IN  IF falsy(trimmedTitle)
        THEN Rejects("createDeck", "empty", rejected)
        ELSE \E now \in Times :
             LET args == [rejected EXCEPT !.now = now]
                 id == generateId(idCount)
                 deck == Deck(id, trimmedTitle, trimOrUndefined(description), Iso(now), Iso(now))
                 draft == createDeckDraft(inMemoryStore, deck)
             IN  /\ mutateStore("createDeck", [args EXCEPT !.newId = id, !.deckId = id], draft)
                 /\ idCount' = idCount + 1


\* a mutant of WithCards: every deck's list becomes cards
WithCardsEverywhere(cardsByDeck, deckId, cards) ==
    [d \in DOMAIN cardsByDeck \cup {deckId} |-> cards]

\* the draft's cardsByDeck with cardsByDeck[deckId] = cards
WithCards(cardsByDeck, deckId, cards) ==
    [d \in DOMAIN cardsByDeck \cup {deckId} |->
        IF d = deckId THEN cards ELSE cardsByDeck[d]]

\* changes.title is absent (None) or a string; changes.description is absent
\* (None), null (Some(None)) or a string (Some(Some(text)))
\* the draft once the mutator of updateDeck has returned, i the place of the
\* deck in store.decks
updateDeckDraft(store, i, title, description, now) ==
    LET deck == store.decks[i]
        updated ==
            Deck(deck.id,
                 IF title # None THEN trim(title[1]) ELSE deck.title,
                 IF description = None THEN deck.description
                 ELSE trimOrUndefined(description[1]),
                 deck.createdAt,
                 Iso(now))
    IN  [decks |-> [store.decks EXCEPT ![i] = updated],
         cardsByDeck |-> store.cardsByDeck,
         settings |-> AsPartial(store.settings)]

updateDeck(deckId, title, description) ==
    LET rejected == [NoOp EXCEPT !.deckId = deckId, !.title = title,
                                 !.description = description]
        i == FindDeck(inMemoryStore.decks, deckId)
    IN  IF i = 0 THEN Rejects("updateDeck", "notFound", rejected)
        ELSE IF title # None /\ falsy(trim(title[1]))
        THEN Throws("updateDeck", "empty", rejected, inMemoryStore)
        ELSE \E now \in Times :
             LET args == [rejected EXCEPT !.now = now]
                 draft == updateDeckDraft(inMemoryStore, i, title, description, now)
             IN  /\ mutateStore("updateDeck", args, draft)
                 /\ UNCHANGED idCount

\* a mutant of deleteDeckDraft: the deck's card list is left in the draft and
\* lastDeckId is not cleared
deleteDeckDraftKeepAll(store, deckId) ==
    [decks |-> RemoveAt(store.decks, FindDeck(store.decks, deckId)),
     cardsByDeck |-> store.cardsByDeck,
     settings |-> AsPartial(store.settings)]

\* the draft once the mutator of deleteDeck has returned
deleteDeckDraft(store, deckId) ==
    [decks |-> RemoveAt(store.decks, FindDeck(store.decks, deckId)),
     cardsByDeck |-> [d \in DOMAIN store.cardsByDeck \ {deckId} |-> store.cardsByDeck[d]],
     settings |->
        IF store.settings.lastDeckId = Some(deckId)
        THEN [AsPartial(store.settings) EXCEPT !.lastDeckId = Some(None)]
        ELSE AsPartial(store.settings)]

deleteDeck(deckId) ==
    LET args == [NoOp EXCEPT !.deckId = deckId]
    IN  IF FindDeck(inMemoryStore.decks, deckId) = 0
        THEN Rejects("deleteDeck", "notFound", args)
        ELSE /\ mutateStore("deleteDeck", args, deleteDeckDraft(inMemoryStore, deckId))
             /\ UNCHANGED idCount

\* a mutant of touch: the deck's updatedAt is left as it was
touchNothing(decks, i, now) == decks

\* deck.updatedAt = now on the i-th deck of the draft
touch(decks, i, now) == [decks EXCEPT ![i].updatedAt = Iso(now)]

\* the draft once the mutator of addCard has returned, i the place of the deck
\* in store.decks
addCardDraft(store, i, card, now) ==
    LET deckId == store.decks[i].id
    IN  [decks |-> touch(store.decks, i, now),
         cardsByDeck |-> WithCards(store.cardsByDeck, deckId,
                                   push(CardsOf(store.cardsByDeck, deckId), card)),
         settings |-> AsPartial(store.settings)]

addCard(deckId, front, back) ==
    LET trimmedFront == trim(front)
        trimmedBack == trim(back)
        rejected == [NoOp EXCEPT !.deckId = deckId]
        i == FindDeck(inMemoryStore.decks, deckId)
    IN  IF falsy(trimmedFront) \/ falsy(trimmedBack)
        THEN Rejects("addCard", "empty", rejected)
        ELSE IF i = 0 THEN Rejects("addCard", "notFound", rejected)
        ELSE \E now \in Times :
             LET args == [rejected EXCEPT !.now = now]
                 id == generateId(idCount)
                 card == Card(id, trimmedFront, trimmedBack)
                 draft == addCardDraft(inMemoryStore, i, card, now)
             IN  /\ mutateStore("addCard",
                                [args EXCEPT !.newId = id, !.cardId = id,
                                             !.front = Some(front), !.back = Some(back)],
                                draft)
                 /\ idCount' = idCount + 1

\* changes.front and changes.back are absent (None) or a string
updateCard(deckId, cardId, front, back) ==
    LET rejected == [NoOp EXCEPT !.deckId = deckId, !.cardId = cardId,
                                 !.front = front, !.back = back]
        i == FindDeck(inMemoryStore.decks, deckId)
        cards == CardsOf(inMemoryStore.cardsByDeck, deckId)
        j == FindCard(cards, cardId)
        \* card.front = trimmed has run when the check of changes.back throws
        withFront ==
            IF front = None THEN inMemoryStore
            ELSE [inMemoryStore EXCEPT !.cardsByDeck[deckId][j].front = trim(front[1])]
    IN  IF i = 0 THEN Rejects("updateCard", "notFound", rejected)
        ELSE IF j = 0 THEN Rejects("updateCard", "notFound", rejected)
        ELSE IF front # None /\ falsy(trim(front[1]))
        THEN Throws("updateCard", "empty", rejected, inMemoryStore)
        ELSE IF back # None /\ falsy(trim(back[1]))
        THEN Throws("updateCard", "empty", rejected, withFront)
        ELSE \E now \in Times :
             LET args == [rejected EXCEPT !.now = now]
                 card == Card(cards[j].id,
                              IF front # None THEN trim(front[1]) ELSE cards[j].front,
                              IF back # None THEN trim(back[1]) ELSE cards[j].back)
                 draft == [decks |-> touch(inMemoryStore.decks, i, now),
                           cardsByDeck |-> [inMemoryStore.cardsByDeck EXCEPT ![deckId][j] = card],
                           settings |-> AsPartial(inMemoryStore.settings)]
             IN  /\ mutateStore("updateCard", args, draft)
                 /\ UNCHANGED idCount

deleteCard(deckId, cardId) ==
    LET rejected == [NoOp EXCEPT !.deckId = deckId, !.cardId = cardId]
        i == FindDeck(inMemoryStore.decks, deckId)
        cards == CardsOf(inMemoryStore.cardsByDeck, deckId)
        j == FindCard(cards, cardId)
    IN  IF i = 0 THEN Rejects("deleteCard", "notFound", rejected)
        ELSE IF j = 0 THEN Rejects("deleteCard", "notFound", rejected)
        ELSE \E now \in Times :
             LET args == [rejected EXCEPT !.now = now]
                 draft == [decks |-> touch(inMemoryStore.decks, i, now),
                           cardsByDeck |->
                               WithCards(inMemoryStore.cardsByDeck, deckId, RemoveAt(cards, j)),
                           settings |-> AsPartial(inMemoryStore.settings)]
             IN  /\ mutateStore("deleteCard", args, draft)
                 /\ UNCHANGED idCount

\* changes is a Partial<Settings>
updateSettings(changes) ==
    LET next == normalizeSettings(Spread(AsPartial(inMemoryStore.settings), changes))
        cleared == IF ~next.rememberLastDeck THEN [next EXCEPT !.lastDeckId = None] ELSE next
        draft == [decks |-> inMemoryStore.decks,
                  cardsByDeck |-> inMemoryStore.cardsByDeck,
                  settings |-> AsPartial(cleared)]
    IN  /\ mutateStore("updateSettings", [NoOp EXCEPT !.changes = changes], draft)
        /\ UNCHANGED idCount

\* a mutant of setLastDeckIdDraft: lastDeckId is left as it was
setLastDeckIdDraftKeep(store, deckId) ==
    [decks |-> store.decks, cardsByDeck |-> store.cardsByDeck,
     settings |-> AsPartial(store.settings)]

\* the draft once the mutator of setLastDeckId has returned
setLastDeckIdDraft(store, deckId) ==
    [decks |-> store.decks,
     cardsByDeck |-> store.cardsByDeck,
     settings |->
        AsPartial(IF ~store.settings.rememberLastDeck
                  THEN [store.settings EXCEPT !.lastDeckId = None]
                  ELSE [store.settings EXCEPT !.lastDeckId = deckId])]

\* deckId is undefined (None) or a string (Some(id))
setLastDeckId(deckId) ==
    /\ mutateStore("setLastDeckId",
                   [NoOp EXCEPT !.deckId = IF deckId = None THEN 0 ELSE deckId[1],
                                !.changes = [NoChanges EXCEPT !.lastDeckId = Some(deckId)]],
                   setLastDeckIdDraft(inMemoryStore, deckId))
    /\ UNCHANGED idCount

\* useStore.refresh: rehydrateInMemory() followed by set(...)
refresh ==
    \E now \in Times, w1, w2 \in BOOLEAN :
    LET h == hydrateFromStorage(slot, storageOk, now, idCount, w1, w2)
        args == [NoOp EXCEPT !.now = now, !.raw = slot,
                             !.reason = IF w1 /\ w2 THEN "" ELSE "quota"]
    IN  /\ ops < Budget("refresh")
        /\ storageOk \/ (w1 /\ w2)
        /\ ops' = ops + 1
        /\ UNCHANGED storageOk
        /\ IF h.throws
           THEN /\ last' = Call("refresh", "writeFailed", args)
                /\ idCount' = h.idCount
                /\ UNCHANGED <<inMemoryStore, slot, published>>
           ELSE /\ last' = Call("refresh", IF h.seeded THEN "seeded" ELSE "ok", args)
                /\ inMemoryStore' = h.store
                /\ published' = h.store
                /\ slot' = h.slot
                /\ idCount' = h.idCount

\* saveStore(store), an exported function that no useStore action wraps
saveStore(store) ==
    IF normalizeThrows(store)
    THEN Rejects("saveStore", "invalidDate", NoOp)
    ELSE \E writeOk \in BOOLEAN :
            /\ ops < MaxOps
            /\ storageOk \/ writeOk
            /\ ops' = ops + 1
            /\ inMemoryStore' = normalizeStore(store)
            /\ slot' = persistSlot(inMemoryStore', slot, storageOk, writeOk)
            /\ last' = Call("saveStore", persistOutcome(inMemoryStore', storageOk, writeOk), NoOp)
            /\ UNCHANGED <<published, storageOk, idCount>>

\* localStorage.clear(), as the tests do before refresh()
clearStorage ==
    /\ storageOk
    /\ slot # NullSlot
    /\ ops < MaxOps
    /\ ops' = ops + 1
    /\ slot' = NullSlot
    /\ last' = Call("clearStorage", "ok", NoOp)
    /\ UNCHANGED <<inMemoryStore, published, storageOk, idCount>>

\* window.localStorage.setItem(STORAGE_KEY, ...) by another writer of the same
\* origin (another tab, an earlier version of the application)
storageWrite(raw) ==
    /\ storageOk
    /\ raw # slot
    /\ ops < MaxOps
    /\ ops' = ops + 1
    /\ slot' = raw
    /\ last' = Call("storageWrite", "ok", NoOp)
    /\ UNCHANGED <<inMemoryStore, published, storageOk, idCount>>

----------------------------------------------------------------------------

\* the changes an updateDeck call passes: <<title, description>>, title absent
\* (None) or a string, description absent, null (Some(None)) or a string
DeckChanges ==
    { << Some(<< " ", "Calm Flow", " " >>), None >>,
      << Some(<< " " >>), Some(Some(<< " ", "steady focus", " " >>)) >>,
      << None, Some(Some(<< " ", "steady focus", " " >>)) >>,
      << None, Some(None) >> }

\* the changes an updateCard call passes: <<front, back>>, each absent (None) or
\* a string
CardChanges ==
    { << Some(<< " ", "Front prompt", " " >>), None >>,
      << None, Some(<< " ", "Back response", " " >>) >>,
      << Some(<< " ", "Front prompt", " " >>), Some(<< " " >>) >>,
      << Some(<< >>), None >> }

SettingsChanges ==
    { [NoChanges EXCEPT !.rememberLastDeck = Some(TRUE)],
      [NoChanges EXCEPT !.rememberLastDeck = Some(FALSE)],
      [NoChanges EXCEPT !.defaultStudyMode = Some("shuffle")],
      [NoChanges EXCEPT !.reducedMotion = Some(TRUE)] }
    \cup { [NoChanges EXCEPT !.lastDeckId = Some(Some(d))] : d \in DeckIdArgs }

LastDeckArgs == { None } \cup { Some(d) : d \in DeckIdArgs }

Next ==
    \/ /\ \E t \in TitleInputs, d \in DescriptionInputs : createDeck(t, d)
       /\ UNCHANGED page
    \/ /\ \E id \in DeckIdArgs, changes \in DeckChanges : updateDeck(id, changes[1], changes[2])
       /\ UNCHANGED page
    \/ /\ \E id \in DeckIdArgs : deleteDeck(id)
       /\ UNCHANGED page
    \/ /\ \E id \in DeckIdArgs, f \in FrontInputs, b \in BackInputs : addCard(id, f, b)
       /\ UNCHANGED page
    \/ /\ \E id \in DeckIdArgs, c \in CardIdArgs, changes \in CardChanges :
             updateCard(id, c, changes[1], changes[2])
       /\ UNCHANGED page
    \/ /\ \E id \in DeckIdArgs, c \in CardIdArgs : deleteCard(id, c)
       /\ UNCHANGED page
    \/ /\ \E changes \in SettingsChanges : updateSettings(changes)
       /\ UNCHANGED page
    \/ /\ \E id \in LastDeckArgs : setLastDeckId(id)
       /\ UNCHANGED page
    \/ /\ refresh
       /\ UNCHANGED page
    \/ /\ \E store \in SaveInputs : saveStore(store)
       /\ UNCHANGED page
    \/ /\ clearStorage
       /\ UNCHANGED page
    \/ /\ \E raw \in RawSlots \ {NullSlot} : storageWrite(raw)
       /\ UNCHANGED page

Spec == Init /\ [][Next]_vars

----------------------------------------------------------------------------
(* Properties *)

\* the step is a call of operation op
Called(op) == ops' = ops + 1 /\ last'.op = op

\* the step left the in-memory store, the durable slot and the published
\* state as they were
NothingChanged ==
    /\ inMemoryStore' = inMemoryStore
    /\ slot' = slot
    /\ published' = published

IsBlank(text) == \A i \in 1..Len(text) : IsSpace(text[i])

\* t is text without its leading and trailing whitespace
IsTrimOf(t, text) ==
    /\ t = << >> \/ (~IsSpace(t[1]) /\ ~IsSpace(t[Len(t)]))
    /\ \E a \in 0..Len(text), b \in 0..Len(text) :
          /\ a + Len(t) + b = Len(text)
          /\ IsBlank(SubSeq(text, 1, a))
          /\ SubSeq(text, a + 1, a + Len(t)) = t
          /\ IsBlank(SubSeq(text, a + Len(t) + 1, Len(text)))

CardIdsOf(store, deckId) ==
    { CardsOf(store.cardsByDeck, deckId)[j].id :
        j \in 1..Len(CardsOf(store.cardsByDeck, deckId)) }

\* C1: in the in-memory store the keys of cardsByDeck are exactly the ids of
\* the decks, after hydration and after every store operation
C1_ReferentialIntegrity ==
    DOMAIN inMemoryStore.cardsByDeck = DeckIds(inMemoryStore)

\* saveStore was given looseStore: its card list without a deck is gone
C1_Witness ==
    /\ last.op = "saveStore"
    /\ last.outcome = "ok"
    /\ DeckIds(inMemoryStore) = {DeckExisting}
    /\ Len(inMemoryStore.cardsByDeck[DeckExisting]) = 1

\* in the record sl of the durable slot lastDeckId is absent unless
\* rememberLastDeck is true
SlotRemembers(sl) ==
    (sl.kind = "json" /\ sl.value.settings # None
        /\ sl.value.settings[1].rememberLastDeck # Some(TRUE))
    => sl.value.settings[1].lastDeckId = None

\* C2: lastDeckId is absent whenever rememberLastDeck is false, in the
\* in-memory store at all times and in every record the store writes to the
\* durable slot, at load and in every operation
C2_LastDeckOnlyIfRemembered ==
    /\ [](~inMemoryStore.settings.rememberLastDeck => inMemoryStore.settings.lastDeckId = None)
    /\ SlotRemembers(slot)
    /\ [][(slot' # slot /\ last'.op # "storageWrite") => SlotRemembers(slot')]_vars

\* updateSettings turned rememberLastDeck off on the store whose lastDeckId
\* was set, and the new settings were written
C2_Witness ==
    /\ last.op = "updateSettings"
    /\ last.outcome = "ok"
    /\ DeckIds(inMemoryStore) = {DeckExisting, DeckStudy}
    /\ ~inMemoryStore.settings.rememberLastDeck
    /\ slot.kind = "json"
    /\ slot.value.settings[1].rememberLastDeck = Some(FALSE)

TextOk(text) == text # << >> /\ ~IsSpace(text[1]) /\ ~IsSpace(text[Len(text)])

\* C3: every title, front and back of the in-memory store is non-empty and
\* has no leading or trailing whitespace
C3_TextNonEmptyTrimmed ==
    /\ \A i \in 1..Len(inMemoryStore.decks) : TextOk(inMemoryStore.decks[i].title)
    /\ \A d \in DOMAIN inMemoryStore.cardsByDeck :
          \A j \in 1..Len(inMemoryStore.cardsByDeck[d]) :
             /\ TextOk(inMemoryStore.cardsByDeck[d][j].front)
             /\ TextOk(inMemoryStore.cardsByDeck[d][j].back)

\* C4: createDeck with a title that is empty or only whitespace throws and
\* changes neither the in-memory store, the durable slot nor the published
\* state
C4_BlankTitleRejected ==
    [][(Called("createDeck") /\ IsBlank(last'.title[1]))
          => (last'.outcome = "rejected" /\ NothingChanged)]_vars

C4_Witness ==
    /\ last.op = "createDeck"
    /\ last.title = Some(<< " " >>)
    /\ last.outcome = "rejected"

\* C5: updateDeck, deleteDeck, addCard, updateCard and deleteCard with a deck
\* id that is not in the store, and updateCard and deleteCard with a card id
\* that is not in that deck, throw and change nothing
C5_UnknownIdRejected ==
    [][(/\ ops' = ops + 1
        /\ \/ /\ last'.op \in {"updateDeck", "deleteDeck", "addCard", "updateCard", "deleteCard"}
              /\ last'.deckId \notin DeckIds(inMemoryStore)
           \/ /\ last'.op \in {"updateCard", "deleteCard"}
              /\ last'.cardId \notin CardIdsOf(inMemoryStore, last'.deckId))
          => (last'.outcome = "rejected" /\ NothingChanged)]_vars

\* deleteCard was called on a deck of the store with the id of a card that is
\* not in that deck
C5_Witness ==
    /\ last.op = "deleteCard"
    /\ last.outcome = "rejected"
    /\ last.deckId \in DeckIds(inMemoryStore)
    /\ last.cardId \notin CardIdsOf(inMemoryStore, last.deckId)
    /\ inMemoryStore.cardsByDeck[last.deckId] # << >>

MutatingOps ==
    {"createDeck", "updateDeck", "deleteDeck", "addCard", "updateCard", "deleteCard",
     "updateSettings", "setLastDeckId", "saveStore"}

\* C6: when the validation or the durable write of a mutating operation or of
\* saveStore fails, the in-memory store keeps its prior value
C6_FailedPersistKeepsSnapshot ==
    [][(/\ ops' = ops + 1
        /\ last'.op \in MutatingOps
        /\ last'.outcome \in {"invalid", "writeFailed"})
          => inMemoryStore' = inMemoryStore]_vars

\* C7: after a deleteDeck(id) that succeeds the deck is not in decks,
\* listCards(id) is empty, neither the in-memory cardsByDeck nor the durable
\* record has an entry for id, and every other deck and its cards are there
C7_CascadeDelete ==
    [][(Called("deleteDeck") /\ last'.outcome = "ok") =>
        LET id == last'.deckId
        IN  /\ id \notin DeckIds(inMemoryStore')
            /\ listCards(inMemoryStore', id) = << >>
            /\ id \notin DOMAIN inMemoryStore'.cardsByDeck
            /\ slot'.kind = "json" =>
                  /\ id \notin DOMAIN slot'.value.cardsByDeck
                  /\ \A i \in 1..Len(slot'.value.decks) : slot'.value.decks[i].id # id
            /\ \A i \in 1..Len(inMemoryStore.decks) :
                  inMemoryStore.decks[i].id # id =>
                     /\ \E k \in 1..Len(inMemoryStore'.decks) :
                           inMemoryStore'.decks[k] = inMemoryStore.decks[i]
                     /\ listCards(inMemoryStore', inMemoryStore.decks[i].id)
                           = listCards(inMemoryStore, inMemoryStore.decks[i].id)]_vars

\* the first of two decks was deleted and the second is still there, with its
\* cards, in memory and in the durable record
C7_Witness ==
    /\ last.op = "deleteDeck"
    /\ last.outcome = "ok"
    /\ last.deckId = DeckExisting
    /\ DeckIds(inMemoryStore) = {DeckStudy}
    /\ Len(listCards(inMemoryStore, DeckStudy)) = 2
    /\ slot.kind = "json"
    /\ DOMAIN slot.value.cardsByDeck = {DeckStudy}

\* C8: a deleteDeck(id) that succeeds clears lastDeckId when it was id and
\* leaves it as it was otherwise, so lastDeckId is not id afterwards, in
\* memory, in the published state and in the durable record
C8_DeleteClearsLastDeck ==
    [][(Called("deleteDeck") /\ last'.outcome = "ok") =>
        LET id == last'.deckId
        IN  /\ inMemoryStore.settings.lastDeckId = Some(id)
                  => inMemoryStore'.settings.lastDeckId = None
            /\ inMemoryStore.settings.lastDeckId # Some(id)
                  => inMemoryStore'.settings.lastDeckId = inMemoryStore.settings.lastDeckId
            /\ inMemoryStore'.settings.lastDeckId # Some(id)
            /\ published'.settings.lastDeckId # Some(id)
            /\ slot'.kind = "json" => slot'.value.settings[1].lastDeckId # Some(Some(id))]_vars

\* the deck lastDeckId named was deleted while rememberLastDeck is on
C8_Witness ==
    /\ last.op = "deleteDeck"
    /\ last.outcome = "ok"
    /\ last.deckId = DeckStudy
    /\ inMemoryStore.settings.rememberLastDeck
    /\ inMemoryStore.settings.lastDeckId = None

\* the positions of listDecks() that hold a deck with this title / this id
WithTitle(decks, title) == { i \in 1..Len(decks) : decks[i].title = title }
WithId(decks, id) == { i \in 1..Len(decks) : decks[i].id = id }

\* C9 as stated: after a createDeck(title) that succeeds listDecks() holds
\* exactly one deck whose title is the trimmed title, and the card list of
\* that deck exists and is empty
C9_OneDeckWithTitle ==
    [][(Called("createDeck") /\ last'.outcome = "ok") =>
        \E t \in {inMemoryStore'.decks[i].title : i \in 1..Len(inMemoryStore'.decks)} :
            /\ IsTrimOf(t, last'.title[1])
            /\ Cardinality(WithTitle(listDecks(inMemoryStore'), t)) = 1
            /\ \A i \in WithTitle(listDecks(inMemoryStore'), t) :
                  /\ listDecks(inMemoryStore')[i].id \in DOMAIN inMemoryStore'.cardsByDeck
                  /\ listCards(inMemoryStore', listDecks(inMemoryStore')[i].id) = << >>]_vars

\* C9 as amended: after a createDeck(title) that succeeds listDecks() holds
\* exactly one deck with the id createDeck returned; its title is the trimmed
\* title and its card list exists and is empty, in memory and, when durable
\* storage is available, in the durable record
C9_OneDeckWithNewId ==
    [][(Called("createDeck") /\ last'.outcome = "ok") =>
        LET id == last'.newId
            listed == listDecks(inMemoryStore')
        IN  /\ Cardinality(WithId(listed, id)) = 1
            /\ \A i \in WithId(listed, id) : IsTrimOf(listed[i].title, last'.title[1])
            /\ id \in DOMAIN inMemoryStore'.cardsByDeck
            /\ listCards(inMemoryStore', id) = << >>
            /\ storageOk =>
                  /\ slot'.kind = "json"
                  /\ Cardinality(WithId(slot'.value.decks, id)) = 1
                  /\ \A i \in WithId(slot'.value.decks, id) :
                        IsTrimOf(slot'.value.decks[i].title, last'.title[1])
                  /\ id \in DOMAIN slot'.value.cardsByDeck
                  /\ slot'.value.cardsByDeck[id] = << >>]_vars

\* a deck was created beside a deck that has the same title, and written
C9_Witness ==
    /\ last.op = "createDeck"
    /\ last.outcome = "ok"
    /\ Cardinality(WithTitle(listDecks(inMemoryStore), Str("Calm Flow"))) = 2
    /\ slot.kind = "json"
    /\ last.newId \in DOMAIN slot.value.cardsByDeck

DeckWithId(store, id) == store.decks[FindDeck(store.decks, id)]

\* C10: an addCard, updateCard or deleteCard on deck D that succeeds sets
\* D.updatedAt to the instant of the call and leaves D.createdAt and the
\* updatedAt of every other deck as they were
C10_CardMutationTouchesDeck ==
    [][(/\ ops' = ops + 1
        /\ last'.op \in {"addCard", "updateCard", "deleteCard"}
        /\ last'.outcome = "ok") =>
        LET id == last'.deckId
        IN  /\ DeckIds(inMemoryStore') = DeckIds(inMemoryStore)
            /\ DeckWithId(inMemoryStore', id).updatedAt = Iso(last'.now)
            /\ DeckWithId(inMemoryStore', id).createdAt = DeckWithId(inMemoryStore, id).createdAt
            /\ \A d \in DeckIds(inMemoryStore) \ {id} :
                  DeckWithId(inMemoryStore', d).updatedAt = DeckWithId(inMemoryStore, d).updatedAt]_vars

\* a card of the deck last updated at instant 2 was deleted at instant 1,
\* beside another deck
C10_Witness ==
    /\ last.op = "deleteCard"
    /\ last.outcome = "ok"
    /\ last.deckId = DeckStudy
    /\ last.now = 1
    /\ DeckIds(inMemoryStore) = {DeckExisting, DeckStudy}
    /\ DeckWithId(inMemoryStore, DeckStudy).updatedAt = Iso(1)

\* C11: in the in-memory store no deck has an updatedAt that is earlier than its
\* createdAt
C11_UpdatedNotBeforeCreated ==
    \A i \in 1..Len(inMemoryStore.decks) :
        inMemoryStore.decks[i].updatedAt.t >= inMemoryStore.decks[i].createdAt.t

\* C12: in the in-memory store no two decks have the same id and no two cards,
\* of one deck or of two decks, have the same id
C12_IdsUnique ==
    /\ \A i, j \in 1..Len(inMemoryStore.decks) :
          i # j => inMemoryStore.decks[i].id # inMemoryStore.decks[j].id
    /\ \A d1, d2 \in DOMAIN inMemoryStore.cardsByDeck :
          \A i \in 1..Len(inMemoryStore.cardsByDeck[d1]), j \in 1..Len(inMemoryStore.cardsByDeck[d2]) :
             (d1 # d2 \/ i # j)
                => inMemoryStore.cardsByDeck[d1][i].id # inMemoryStore.cardsByDeck[d2][j].id

\* C13: updateSettings with rememberLastDeck false leaves lastDeckId absent;
\* updateSettings with rememberLastDeck true and no lastDeckId, called when
\* rememberLastDeck is false, leaves lastDeckId absent too; in both calls a
\* settings key that is not among the changes keeps its value, and the new
\* settings are published when the call succeeds
C13_ForgetLastDeck ==
    [][Called("updateSettings") =>
        LET changes == last'.changes
            before == inMemoryStore.settings
            after == inMemoryStore'.settings
        IN  /\ changes.rememberLastDeck = Some(FALSE)
                  => (~after.rememberLastDeck /\ after.lastDeckId = None)
            /\ (changes.rememberLastDeck = Some(TRUE) /\ changes.lastDeckId = None
                  /\ ~before.rememberLastDeck)
                  => (after.rememberLastDeck /\ after.lastDeckId = None)
            /\ \A k \in {"defaultStudyMode", "reducedMotion"} :
                  changes[k] = None => after[k] = before[k]
            /\ last'.outcome = "ok" => published'.settings = after]_vars

\* rememberLastDeck was turned off while lastDeckId named a deck, and then
\* turned on again: lastDeckId is absent
C13_Witness ==
    /\ last.op = "updateSettings"
    /\ last.outcome = "ok"
    /\ last.changes.rememberLastDeck = Some(TRUE)
    /\ last.prev.op = "updateSettings"
    /\ last.prev.outcome = "ok"
    /\ last.prev.changes.rememberLastDeck = Some(FALSE)
    /\ DeckIds(inMemoryStore) = {DeckExisting, DeckStudy}
    /\ Len(inMemoryStore.cardsByDeck[DeckStudy]) = 2
    /\ inMemoryStore.settings.rememberLastDeck
    /\ inMemoryStore.settings.lastDeckId = None

\* C14: setLastDeckId(x) leaves the in-memory store as it was when
\* rememberLastDeck is false, and changes lastDeckId to x and nothing else when
\* rememberLastDeck is true
C14_SetLastDeckId ==
    [][Called("setLastDeckId") =>
        LET x == last'.changes.lastDeckId[1]
        IN  /\ ~inMemoryStore.settings.rememberLastDeck => inMemoryStore' = inMemoryStore
            /\ inMemoryStore.settings.rememberLastDeck
                  => inMemoryStore' = [inMemoryStore EXCEPT !.settings.lastDeckId = x]
            /\ last'.outcome = "ok" => published' = inMemoryStore']_vars

\* setLastDeckId was called with the id of a deck that is not in the store
\* while rememberLastDeck is true
C14_Witness ==
    /\ last.op = "setLastDeckId"
    /\ last.outcome = "ok"
    /\ last.changes.lastDeckId = Some(Some(DemoDeck))
    /\ inMemoryStore.settings.rememberLastDeck
    /\ inMemoryStore.settings.lastDeckId = Some(DemoDeck)
    /\ DemoDeck \notin DeckIds(inMemoryStore)

\* the store holds exactly the two sample decks, with 3 and 10 cards, and the
\* default settings
IsSample(store) ==
    /\ Len(store.decks) = 2
    /\ store.decks[1].title = Str("Mindful Moments")
    /\ store.decks[2].title = Str("Bible Verses")
    /\ store.decks[1].id # store.decks[2].id
    /\ DOMAIN store.cardsByDeck = {store.decks[1].id, store.decks[2].id}
    /\ Len(store.cardsByDeck[store.decks[1].id]) = 3
    /\ Len(store.cardsByDeck[store.decks[2].id]) = 10
    /\ store.settings = defaultSettings

\* the slot holds the JSON text of store
Written(sl, store) ==
    /\ sl.kind = "json"
    /\ sl.value.decks = store.decks
    /\ sl.value.cardsByDeck = store.cardsByDeck
    /\ sl.value.settings # None
    /\ \A k \in SettingsKeys :
          sl.value.settings[1][k] =
             IF k = "lastDeckId" /\ store.settings[k] = None THEN None
             ELSE Some(store.settings[k])

\* C15: when durable storage is available and the slot is empty, the load and
\* refresh() yield the sample store and write it to the slot; the refresh()
\* after a load or refresh that seeded returns the same store
C15_EmptySlotSeedsSample ==
    /\ (last.outcome = "seeded" /\ storageOk)
          => (IsSample(inMemoryStore) /\ Written(slot, inMemoryStore))
    /\ [][(Called("refresh") /\ storageOk /\ slot.kind = "null"
              /\ last'.reason = "")
            => /\ last'.outcome = "seeded"
               /\ IsSample(inMemoryStore')
               /\ Written(slot', inMemoryStore')
               /\ published' = inMemoryStore']_vars
    /\ [][(Called("refresh") /\ storageOk /\ last.op \in {"load", "refresh"}
              /\ last.outcome = "seeded" /\ last'.reason = "")
            => /\ last'.outcome = "ok"
               /\ inMemoryStore' = inMemoryStore
               /\ slot' = slot]_vars

\* the slot was cleared and refresh() seeded the sample store
C15_Witness ==
    /\ last.op = "refresh"
    /\ last.outcome = "seeded"
    /\ last.raw = NullSlot
    /\ last.prev.op = "clearStorage"
    /\ storageOk
    /\ IsSample(inMemoryStore)
    /\ Written(slot, inMemoryStore)

\* the ids of the decks of the record in the slot
RecordDeckIds(sl) == { sl.value.decks[i].id : i \in 1..Len(sl.value.decks) }

\* C16: refresh() does not seed the sample store when the slot holds a record
\* that passes the schema, a record without decks included
C16_ValidRecordNotReseeded ==
    [][(Called("refresh") /\ storageOk /\ slot.kind = "json" /\ storeSchemaOk(slot.value)
           /\ last'.reason = "")
          => (last'.outcome = "ok" /\ DeckIds(inMemoryStore') = RecordDeckIds(slot))]_vars

\* the slot holds no JSON text, or a record the schema rejects
Corrupt(sl) == sl.kind = "garbage" \/ (sl.kind = "json" /\ ~storeSchemaOk(sl.value))

\* C17: refresh() on a slot that holds no JSON text or a record the schema
\* rejects returns without an error, the in-memory store and the published
\* state are the sample store, none of the record's decks is kept, and the
\* slot holds the sample store
C17_CorruptRecordReplaced ==
    [][(Called("refresh") /\ storageOk /\ Corrupt(slot) /\ last'.reason = "")
          => /\ last'.outcome = "seeded"
             /\ IsSample(inMemoryStore')
             /\ DeckIds(inMemoryStore') \cap RecordDeckIds(slot) = {}
             /\ published' = inMemoryStore'
             /\ Written(slot', inMemoryStore')]_vars

\* refresh() read a record whose deck has no card list, and seeded
C17_Witness ==
    /\ last.op = "refresh"
    /\ last.outcome = "seeded"
    /\ last.raw = AsJson(unlistedStore)
    /\ IsSample(inMemoryStore)
    /\ Written(slot, inMemoryStore)
    /\ published = inMemoryStore

\* the record passes the schema once its settings are left out, and has decks
ValidButSettings(sl) ==
    /\ sl.kind = "json"
    /\ storeSchemaOk([sl.value EXCEPT !.settings = None])
    /\ sl.value.decks # << >>

\* C18: refresh() on a record whose settings lack keys or hold values of the
\* wrong type, and which is valid otherwise, does not seed: the decks and the
\* cards of the record are kept
C18_SettingsDefaultedPerField ==
    [][(Called("refresh") /\ storageOk /\ ValidButSettings(slot)
           /\ last'.reason = "")
          => /\ last'.outcome = "ok"
             /\ DeckIds(inMemoryStore') = RecordDeckIds(slot)]_vars

\* a StoreState as the argument of normalizeStore
AsDraft(store) == [store EXCEPT !.settings = AsPartial(store.settings)]

\* C19: every store normalizeStore has returned (the in-memory store is always
\* one) is returned unchanged by normalizeStore
C19_NormalizeIdempotent ==
    normalizeStore(AsDraft(inMemoryStore)) = inMemoryStore

\* saveStore normalized looseStore: text trimmed, blank description dropped,
\* timestamp canonical, the card list without a deck gone
C19_Witness ==
    /\ last.op = "saveStore"
    /\ inMemoryStore.decks =
          << Deck(DeckExisting, Str("Existing Deck"), None, Iso(1), Iso(1)) >>
    /\ inMemoryStore.cardsByDeck[DeckExisting] =
          << Card(CardOne, Str("First prompt"), Str("First answer")) >>
    /\ inMemoryStore.decks # looseStore.decks
    /\ normalizeStore(looseStore) = inMemoryStore

\* C20: an operation whose inputs are valid returns normally when storage is
\* unavailable and when the write to it fails
C20_WriteFailureDoesNotThrow ==
    [][(ops' = ops + 1 /\ last'.op \in MutatingOps \cup {"refresh"}
           /\ last'.outcome \notin {"rejected", "invalid"})
          => last'.outcome \in {"ok", "seeded"}]_vars

\* C21: when durable storage is unavailable refresh() leaves the in-memory
\* store as it was
C21_SessionSurvivesRefresh ==
    [][(Called("refresh") /\ ~storageOk) => inMemoryStore' = inMemoryStore]_vars

\* the mutating operations that useStore wraps
Mutations == MutatingOps \ {"saveStore"}

\* C22: a mutation that succeeds publishes the new in-memory store, which the
\* durable slot holds by then when storage is available; a mutation that throws
\* leaves the published state as it was
C22_PublishAfterSuccess ==
    [][(ops' = ops + 1 /\ last'.op \in Mutations) =>
        IF last'.outcome = "ok"
        THEN /\ published' = inMemoryStore'
             /\ storageOk => Written(slot', published')
        ELSE published' = published]_vars

\* updateDeck succeeded with storage available: its result is published and in
\* the slot
C22_Witness ==
    /\ last.op = "updateDeck"
    /\ last.outcome = "ok"
    /\ storageOk
    /\ DeckWithId(published, last.deckId).updatedAt = Iso(last.now)
    /\ published = inMemoryStore
    /\ Written(slot, published)

\* how many times deck is in decks
Occurrences(decks, deck) == Cardinality({ i \in 1..Len(decks) : decks[i] = deck })

NormalizedRecord(sl) ==
    LET parsed == storeSchemaParse(sl.value)
    IN  normalizeStore([decks |-> parsed.decks,
                        cardsByDeck |-> parsed.cardsByDeck,
                        settings |-> IF parsed.settings = None
                                     THEN AsPartial(defaultSettings)
                                     ELSE AsPartial(parsed.settings[1])])

\* C24: after refresh() on a slot that holds a record the schema accepts, the
\* in-memory store and the published state are the normalized record
C24_RefreshLoadsRecord ==
    [][(Called("refresh") /\ storageOk /\ slot.kind = "json" /\ storeSchemaOk(slot.value)
           /\ last'.reason = "")
          => /\ inMemoryStore' = NormalizedRecord(slot)
             /\ published' = inMemoryStore']_vars

\* C28: an addCard that succeeds appends one card, with the generated id and
\* the trimmed front and back, to the card list of the deck; listCards returns
\* the list with the earlier cards first, in their order
C28_AddCardAppends ==
    [][(Called("addCard") /\ last'.outcome = "ok") =>
        LET id == last'.deckId
            before == listCards(inMemoryStore, id)
            after == listCards(inMemoryStore', id)
        IN  /\ Len(after) = Len(before) + 1
            /\ SubSeq(after, 1, Len(before)) = before
            /\ after[Len(after)].id = last'.newId
            /\ IsTrimOf(after[Len(after)].front, last'.front[1])
            /\ IsTrimOf(after[Len(after)].back, last'.back[1])
            /\ \A d \in DeckIds(inMemoryStore) \ {id} :
                  listCards(inMemoryStore', d) = listCards(inMemoryStore, d)]_vars

\* a card was added to the deck that had two cards
C28_Witness ==
    /\ last.op = "addCard"
    /\ last.outcome = "ok"
    /\ last.deckId = DeckStudy
    /\ Len(listCards(inMemoryStore, DeckStudy)) = 3
    /\ listCards(inMemoryStore, DeckStudy)[1].id = CardOne
    /\ listCards(inMemoryStore, DeckStudy)[2].id = CardTwo
    /\ listCards(inMemoryStore, DeckStudy)[3].front = Str("Front prompt")
    /\ listCards(inMemoryStore, DeckStudy)[3].back = Str("Back response")

----------------------------------------------------------------------------
(* Study page *)

\* the largest deck a study session is explored on
MaxStudyCards == 3

\* what the durable slot holds when the application is opened on a page
PageSlots == { NullSlot, AsJson(twoDeckStore), AsJson(looseStore) }

\* the orders shuffleIds(ids) may return, one for each outcome of Math.random()
shuffleIds(ids) ==
    { order \in [1..Len(ids) -> { ids[i] : i \in 1..Len(ids) }] :
        \A i \in 1..Len(ids) :
            Cardinality({ j \in 1..Len(ids) : order[j] = ids[i] })
                = Cardinality({ j \in 1..Len(ids) : ids[j] = ids[i] }) }

\* the cards the Study page reads from useStore
StudyCards == CardsOf(published.cardsByDeck, page.deckId)

\* cards.map((card) => card.id)
cardOrder == [i \in 1..Len(StudyCards) |-> StudyCards[i].id]

\* cardMap.get(id): a Map built from the cards keeps the last card of an id
cardMapGet(cards, id) ==
    LET at == { i \in 1..Len(cards) : cards[i].id = id }
    IN  IF at = {} THEN None
        ELSE Some(cards[CHOOSE i \in at : \A j \in at : j <= i])

\* cardMap.get(sessionOrder[currentIndex]), null (None) when currentIndex is
\* past the end
currentCard(p) ==
    IF p.currentIndex < Len(p.sessionOrder)
    THEN cardMapGet(CardsOf(published.cardsByDeck, p.deckId),
                    p.sessionOrder[p.currentIndex + 1])
    ELSE None

\* the text on the card
faceText(p) ==
    IF currentCard(p) = None THEN << >>
    ELSE IF p.isFlipped THEN currentCard(p)[1].back ELSE currentCard(p)[1].front

\* a mutant of applyOrder: the position in the session is kept
applyOrderKeepIndex(p, kind, ids, order) ==
    [p EXCEPT !.sessionOrder = IF ids = << >> THEN << >>
                               ELSE IF kind = "shuffle" THEN order ELSE ids,
              !.isFlipped = FALSE]

\* the component state once applyOrder(kind) has run, ids being cardOrder and
\* order the result of shuffleIds
applyOrder(p, kind, ids, order) ==
    [p EXCEPT !.sessionOrder = IF ids = << >> THEN << >>
                               ELSE IF kind = "shuffle" THEN order ELSE ids,
              !.currentIndex = 0,
              !.isFlipped = FALSE]

\* a handler of a page ran that does not call the store
PageStep(op, p) ==
    /\ page' = p
    /\ last' = Call(op, "ok", NoOp)
    /\ UNCHANGED <<inMemoryStore, slot, published, storageOk, idCount, ops>>

\* the Study page is mounted on a deck: the useState initial values, then the
\* effect that calls applyOrder(mode)
StudyInit ==
    /\ StoreInit(PageSlots)
    /\ \E deckId \in DeckIds(published) \cup { DemoDeck } :
          LET cards == CardsOf(published.cardsByDeck, deckId)
          IN  /\ Len(cards) <= MaxStudyCards
              /\ page = [name |-> "Study", deckId |-> deckId, mode |-> "ordered",
                         sessionOrder |-> [i \in 1..Len(cards) |-> cards[i].id],
                         currentIndex |-> 0, isFlipped |-> FALSE]

\* a click on the card, or the space bar
handleFlip ==
    /\ currentCard(page) # None
    /\ PageStep("handleFlip", [page EXCEPT !.isFlipped = ~page.isFlipped])

\* a mutant of nextIndex: the session stops at the last card
nextIndexStop(index, cardCount) ==
    IF index + 1 < cardCount THEN index + 1 ELSE index

nextIndex(index, cardCount) == (index + 1) % cardCount

prevIndex(index, cardCount) == (index - 1 + cardCount) % cardCount

\* the Next button, or the right arrow key
handleNext ==
    LET cardCount == Len(page.sessionOrder)
    IN  IF cardCount = 0 THEN PageStep("handleNext", page)
        ELSE PageStep("handleNext",
                       [page EXCEPT !.currentIndex = nextIndex(page.currentIndex, cardCount),
                                    !.isFlipped = FALSE])

\* the Previous button, or the left arrow key
handlePrev ==
    LET cardCount == Len(page.sessionOrder)
    IN  IF cardCount = 0 THEN PageStep("handlePrev", page)
        ELSE PageStep("handlePrev",
                       [page EXCEPT !.currentIndex = prevIndex(page.currentIndex, cardCount),
                                    !.isFlipped = FALSE])

\* the Restart button, or the r key
handleRestart ==
    \E order \in shuffleIds(cardOrder) :
        PageStep("handleRestart", applyOrder(page, page.mode, cardOrder, order))

\* the Shuffle button; setMode is followed by the effect that calls applyOrder
activateShuffle ==
    \E order \in shuffleIds(cardOrder) :
        PageStep("activateShuffle", applyOrder([page EXCEPT !.mode = "shuffle"], "shuffle", cardOrder, order))

\* the Ordered button
activateOrdered ==
    PageStep("activateOrdered", applyOrder([page EXCEPT !.mode = "ordered"], "ordered", cardOrder, cardOrder))

\* A useStore action changes the store while the page is mounted. Its set(...)
\* publishes new arrays, so cards, cardOrder and applyOrder are new and the
\* effect runs applyOrder(mode) after the render; an action that throws
\* publishes nothing.
storeChanged ==
    /\ \/ \E id \in DeckIdArgs, f \in FrontInputs, b \in BackInputs : addCard(id, f, b)
       \/ \E id \in DeckIdArgs, c \in CardIdArgs : deleteCard(id, c)
       \/ \E id \in DeckIdArgs : deleteDeck(id)
    /\ LET cards == CardsOf(published'.cardsByDeck, page.deckId)
           ids == [i \in 1..Len(cards) |-> cards[i].id]
       IN  IF last'.outcome = "ok"
           THEN \E order \in shuffleIds(ids) :
                    page' = applyOrder(page, page.mode, ids, order)
           ELSE page' = page

StudyNext ==
    \/ handleFlip
    \/ handleNext
    \/ handlePrev
    \/ handleRestart
    \/ activateShuffle
    \/ activateOrdered
    \/ storeChanged

StudySpec == StudyInit /\ [][StudyNext]_vars

\* the step is a run of the page handler op
Handled(op) == last'.op = op

\* position i of the session holds the id of one card of the deck
LandsOn(p, i) ==
    { c \in { StudyCards[k] : k \in 1..Len(StudyCards) } : c.id = p.sessionOrder[i + 1] }

\* C29: a study session over a deck with cards starts on the first card of the
\* deck, front showing; Next moves from position i to (i + 1) mod n and Previous
\* to (i - 1 + n) mod n; after either the front of the card at the new position
\* shows
C29_StudyLoops ==
    /\ [](last.op = "load" /\ Len(StudyCards) >= 1
            => /\ page.currentIndex = 0
               /\ ~page.isFlipped
               /\ faceText(page) = StudyCards[1].front)
    /\ [][(Handled("handleNext") \/ Handled("handlePrev")) /\ Len(StudyCards) >= 1
            => LET n == Len(StudyCards)
                   i == page.currentIndex
               IN  /\ Len(page.sessionOrder) = n
                   /\ page'.currentIndex =
                        IF Handled("handleNext") THEN (i + 1) % n ELSE (i - 1 + n) % n
                   /\ ~page'.isFlipped
                   /\ \E c \in LandsOn(page', page'.currentIndex) : faceText(page') = c.front
                   /\ page'.sessionOrder = page.sessionOrder]_vars

\* Next was pressed on the last card of a three-card deck while its back was
\* showing: the session is on the first card again, front showing
C29_Witness ==
    /\ last.op = "handleNext"
    /\ last.prev.op = "handleFlip"
    /\ Len(StudyCards) = 3
    /\ page.currentIndex = 0
    /\ ~page.isFlipped
    /\ faceText(page) = StudyCards[1].front

----------------------------------------------------------------------------
(* Deck editor page: the header form *)

\* what the user types into the title and description fields
TitleEdits == { << " ", "Calm Flow", " " >>, << "Calm Flow" >>, << " " >> }
DescriptionEdits == { << >>, << " ", "steady focus", " " >> }

\* the deck the editor reads from useStore
EditorDeck == published.decks[FindDeck(published.decks, page.deckId)]

\* deck?.description ?? ""
OrEmpty(description) == IF description = None THEN << >> ELSE description[1]

\* the form differs from the deck: the negation of the test that the debounce
\* effect and persistHeader make
headerDiffers(title, description, deck) ==
    \/ trim(title) # deck.title
    \/ trim(description) # OrEmpty(deck.description)

\* the debounce effect runs on the form of p: its cleanup clears the timer, and
\* when the header differs from the deck a timer is set whose callback holds
\* the trimmed title and description of this render
debounceEffect(p, deck) ==
    IF headerDiffers(p.title, p.description, deck)
    THEN [p EXCEPT !.headerDirty = TRUE,
                   !.timer = Some([title |-> trim(p.title),
                                   description |-> trim(p.description)])]
    ELSE [p EXCEPT !.timer = None]

\* the render after setForm: the debounce effect runs when the trimmed title
\* or the trimmed description changed
afterSetForm(old, p, deck) ==
    IF trim(p.title) # trim(old.title) \/ trim(p.description) # trim(old.description)
    THEN debounceEffect(p, deck)
    ELSE p

\* what the durable slot holds when the editor or the import page is opened
EditorSlots == { AsJson(twoDeckStore), AsJson(looseStore) }

\* the editor is mounted on a deck: the effects of the first render set the
\* form to the deck's header with headerDirtyRef false, then the debounce
\* effect runs on that form
EditorInit ==
    /\ StoreInit(EditorSlots)
    /\ \E deckId \in DeckIds(published) :
          LET deck == published.decks[FindDeck(published.decks, deckId)]
          IN  page = debounceEffect([name |-> "DeckEditor", deckId |-> deckId,
                                     title |-> deck.title,
                                     description |-> OrEmpty(deck.description),
                                     error |-> None, headerDirty |-> FALSE,
                                     timer |-> None, routes |-> 0],
                                    deck)

handleTitleChange(value) ==
    /\ value # page.title
    /\ PageStep("handleTitleChange",
                  afterSetForm(page,
                               [page EXCEPT !.title = value, !.error = None,
                                            !.headerDirty = TRUE],
                               EditorDeck))

handleDescriptionChange(value) ==
    /\ value # page.description
    /\ PageStep("handleDescriptionChange",
                  afterSetForm(page,
                               [page EXCEPT !.description = value, !.error = None,
                                            !.headerDirty = TRUE],
                               EditorDeck))

\* the renders after updateDeck has published deck in place of old: the effect
\* on deck.updatedAt resets the form when headerDirtyRef is false, the debounce
\* effect runs when the deck's title or description changed, and again after
\* the form was reset
afterSave(p, old, deck) ==
    LET q == IF deck.title # old.title
                \/ OrEmpty(deck.description) # OrEmpty(old.description)
             THEN debounceEffect(p, deck)
             ELSE p
    IN  IF deck.updatedAt # old.updatedAt /\ ~p.headerDirty
        THEN afterSetForm(q,
                          [q EXCEPT !.title = deck.title,
                                    !.description = OrEmpty(deck.description),
                                    !.error = None],
                          deck)
        ELSE q

\* the changes persistHeader passes to updateDeck:
\* { title: trimmedTitle, description: trimmedDescription || undefined }
headerChanges(title, description) ==
    << Some(title), IF falsy(description) THEN None ELSE Some(Some(description)) >>

\* the debounce timer fires DEBOUNCE_MS after it was set: persistHeader runs
\* with the trimmed title and description of the render that set the timer
persistHeader ==
    /\ page.timer # None
    /\ LET held == page.timer[1]
           p == [page EXCEPT !.timer = None]
           changes == headerChanges(held.title, held.description)
           i == FindDeck(inMemoryStore.decks, page.deckId)
       IN  IF held.title = << >>
           THEN /\ page' = p
                /\ last' = Call("persistHeader", "skipped", NoOp)
                /\ UNCHANGED <<inMemoryStore, slot, published, storageOk, idCount, ops>>
           ELSE IF ~headerDiffers(held.title, held.description, EditorDeck)
           THEN /\ page' = [p EXCEPT !.headerDirty = FALSE]
                /\ last' = Call("persistHeader", "skipped", NoOp)
                /\ UNCHANGED <<inMemoryStore, slot, published, storageOk, idCount, ops>>
           ELSE IF i = 0
           THEN /\ page' = [p EXCEPT !.error = Some("notFound")]
                /\ last' = Call("persistHeader", "rejected", NoOp)
                /\ UNCHANGED <<inMemoryStore, slot, published, storageOk, idCount, ops>>
           ELSE \E now \in Times :
                /\ pageMutation("persistHeader",
                                [NoOp EXCEPT !.deckId = page.deckId, !.now = now,
                                             !.title = Some(held.title),
                                             !.description = Some(held.description)],
                                updateDeckDraft(inMemoryStore, i, changes[1], changes[2], now))
                /\ page' = IF last'.outcome = "ok"
                           THEN afterSave([p EXCEPT !.headerDirty = FALSE], EditorDeck,
                                          published'.decks[FindDeck(published'.decks,
                                                                    page.deckId)])
                           ELSE [p EXCEPT !.error = Some("writeFailed")]
                /\ UNCHANGED idCount

\* The route changes to the editor of another deck; the component stays
\* mounted and keeps its form. The cleanup of the debounce effect clears the
\* timer; the effect on deck.id sets the form to the new deck's header unless
\* headerDirtyRef is true; the debounce effect runs on the form it is given,
\* for the new deck; the effect on deckId sets headerDirtyRef to false.
routeChanged(deckId) ==
    LET deck == published.decks[FindDeck(published.decks, deckId)]
        moved == [page EXCEPT !.deckId = deckId, !.timer = None,
                              !.routes = page.routes + 1]
        synced == IF page.headerDirty THEN moved
                  ELSE [moved EXCEPT !.title = deck.title,
                                     !.description = OrEmpty(deck.description),
                                     !.error = None]
    IN  /\ page.routes < MaxRoutes
        /\ deckId \in DeckIds(published) \ {page.deckId}
        /\ page' = [debounceEffect(synced, deck) EXCEPT !.headerDirty = FALSE]
        /\ last' = Call("routeChanged", "ok", [NoOp EXCEPT !.deckId = deckId])
        /\ UNCHANGED <<inMemoryStore, slot, published, storageOk, idCount, ops>>

EditorNext ==
    \/ \E value \in TitleEdits : handleTitleChange(value)
    \/ \E value \in DescriptionEdits : handleDescriptionChange(value)
    \/ persistHeader
    \/ \E deckId \in DeckIdArgs : routeChanged(deckId)

\* the browser runs the callback of a timer that is set and not cleared
EditorSpec == EditorInit /\ [][EditorNext]_vars /\ WF_vars(persistHeader)

\* a debounce timer is set whose callback holds a title
TimerPending == page.timer # None /\ page.timer[1].title # << >>

\* persistHeader called updateDeck, and the deck of the in-memory store holds
\* the title and description the timer held
HeaderSaved ==
    LET i == FindDeck(inMemoryStore.decks, page.deckId)
    IN  /\ last.op = "persistHeader"
        /\ last.title # None
        /\ i # 0
        /\ inMemoryStore.decks[i].title = last.title[1]
        /\ OrEmpty(inMemoryStore.decks[i].description) = last.description[1]

\* an edit of the header, or a change of route, left no timer that holds a
\* title
EditedAway ==
    /\ last.op \in { "handleTitleChange", "handleDescriptionChange", "routeChanged" }
    /\ ~TimerPending

\* C30: once the user has changed the header so that the trimmed title is not
\* empty and the header differs from the stored deck, the debounce timer runs
\* updateDeck and the store's deck comes to hold the trimmed title and
\* description the timer carried, unless a later edit takes the change back
C30_HeaderEventuallySaved == TimerPending ~> (HeaderSaved \/ EditedAway)

----------------------------------------------------------------------------
(* Import and export: the CSV parser *)

Quote == "\""
Comma == ","
LF == "\n"
CR == "\r"

\* value.toLowerCase(), block by block
toLowerCase(s) ==
    [i \in 1..Len(s) |->
        IF s[i] = "Front" THEN "front" ELSE IF s[i] = "BACK" THEN "back" ELSE s[i]]

\* text[index], undefined ("") past the end
charAt(text, index) == IF index <= Len(text) THEN text[index] ELSE ""

\* the loop of parseCsv from text[index] on: st holds current, row, rows and
\* inQuotes
RECURSIVE scanCsv(_, _, _)
scanCsv(text, index, st) ==
    IF index > Len(text) THEN st
    ELSE LET char == text[index]
         IN  IF char = Quote
             THEN IF st.inQuotes /\ charAt(text, index + 1) = Quote
                  THEN scanCsv(text, index + 2,
                               [st EXCEPT !.current = Append(st.current, Quote)])
                  ELSE scanCsv(text, index + 1, [st EXCEPT !.inQuotes = ~st.inQuotes])
             ELSE IF char = Comma /\ ~st.inQuotes
             THEN scanCsv(text, index + 1,
                          [st EXCEPT !.row = Append(st.row, st.current),
                                     !.current = << >>])
             ELSE IF char \in { LF, CR } /\ ~st.inQuotes
             THEN scanCsv(text,
                          IF char = CR /\ charAt(text, index + 1) = LF
                          THEN index + 2 ELSE index + 1,
                          [st EXCEPT !.rows = Append(st.rows, Append(st.row, st.current)),
                                     !.row = << >>,
                                     !.current = << >>])
             ELSE scanCsv(text, index + 1, [st EXCEPT !.current = Append(st.current, char)])

\* the rows parseCsv has read when the loop and the push of the last row are
\* done
csvRows(text) ==
    LET st == scanCsv(text, 1, [current |-> << >>, row |-> << >>, rows |-> << >>,
                                inQuotes |-> FALSE])
    IN  IF Len(st.current) > 0 \/ Len(st.row) > 0
        THEN Append(st.rows, Append(st.row, st.current))
        ELSE st.rows

\* seq.filter(keep) for a set keep of positions
RECURSIVE filterAt(_, _, _)
filterAt(seq, i, keep) ==
    IF i > Len(seq) THEN << >>
    ELSE IF i \in keep THEN << seq[i] >> \o filterAt(seq, i + 1, keep)
    ELSE filterAt(seq, i + 1, keep)

\* headers.indexOf(name), 0 for -1 and places counted from 1
indexOf(headers, name) ==
    LET at == { i \in 1..Len(headers) : headers[i] = << name >> }
    IN  IF at = {} THEN 0 ELSE CHOOSE i \in at : \A j \in at : i <= j

\* cells[index] ?? ""
cellAt(cells, index) == IF index <= Len(cells) THEN cells[index] ELSE << >>

\* a mutant of dataRowsOf: the first row is read as data
dataRowsAll(nonEmptyRows) == nonEmptyRows

\* const [headerRow, ...dataRows] = nonEmptyRows
dataRowsOf(nonEmptyRows) == Tail(nonEmptyRows)

\* parseCsv(text): throws, or returns the front and back of every data row
parseCsv(text) ==
    LET rows == csvRows(text)
        nonEmptyRows ==
            filterAt(rows, 1,
                     { i \in 1..Len(rows) :
                         \E c \in 1..Len(rows[i]) : trim(rows[i][c]) # << >> })
    IN  IF nonEmptyRows = << >> THEN [throws |-> FALSE, cards |-> << >>]
        ELSE LET headers == [i \in 1..Len(nonEmptyRows[1]) |->
                                toLowerCase(trim(nonEmptyRows[1][i]))]
                 frontIndex == indexOf(headers, "front")
                 backIndex == indexOf(headers, "back")
                 dataRows == dataRowsOf(nonEmptyRows)
             IN  IF frontIndex = 0 \/ backIndex = 0
                 THEN [throws |-> TRUE, cards |-> << >>]
                 ELSE [throws |-> FALSE,
                       cards |-> [i \in 1..Len(dataRows) |->
                                    [front |-> cellAt(dataRows[i], frontIndex),
                                     back |-> cellAt(dataRows[i], backIndex)]]]

\* the contents of the fields of the explored files: with a comma, with quotes,
\* with a line break, plain, empty
CsvFields ==
    { << "Greeting", Comma, " ", "friendly" >>,
      << "Hello", Comma, " ", Quote, "friend", Quote, "!" >>,
      << "Inhale", LF, "exhale" >>,
      << "Affirmation" >>,
      << >> }

\* the largest number of data rows of an explored file
MaxRows == 2

CsvData ==
    UNION { [1..n -> [front : CsvFields, back : CsvFields]] : n \in 1..MaxRows }

\* a field between double quotes, each quote of its content doubled
RECURSIVE doubleQuotes(_)
doubleQuotes(s) ==
    IF s = << >> THEN << >>
    ELSE (IF Head(s) = Quote THEN << Quote, Quote >> ELSE << Head(s) >>)
             \o doubleQuotes(Tail(s))

quoted(s) == << Quote >> \o doubleQuotes(s) \o << Quote >>

\* a file with the header front,back and one line for each row of data, every
\* field quoted, the lines ended by eol
RECURSIVE quotedLines(_, _)
quotedLines(data, eol) ==
    IF data = << >> THEN << >>
    ELSE eol \o quoted(Head(data).front) \o << Comma >> \o quoted(Head(data).back)
             \o quotedLines(Tail(data), eol)

quotedFile(data, eol) == << "front", Comma, "back" >> \o quotedLines(data, eol)

\* the file of the import test: quoted fields with commas and doubled quotes,
\* then a plain row
TestCsv ==
    << "front", Comma, "back", LF,
       Quote, "Greeting", Comma, " ", "friendly", Quote, Comma,
       Quote, "Hello", Comma, " ", Quote, Quote, "friend", Quote, Quote, "!", Quote, LF,
       "Affirmation", Comma, "You are capable" >>

\* files that are no quoted encoding: the test file, a header in capitals with
\* the columns swapped and a blank line, a file without the back column, an
\* empty file
PlainCsv ==
    { TestCsv,
      << " ", "BACK", Comma, "Front", CR, LF, CR, LF, "You are capable", Comma,
         "Affirmation", LF >>,
      << "front", LF, "Affirmation" >>,
      << >> }

EndOfLine == { << LF >>, << CR, LF >> }

CsvTexts == { quotedFile(data, eol) : data \in CsvData, eol \in EndOfLine } \cup PlainCsv

\* a file is picked whose text is one of CsvTexts; nothing is parsed yet
CsvInit ==
    /\ StoreInit({ AsJson(makeStore) })
    /\ \E text \in CsvTexts : page = [name |-> "parseCsv", text |-> text, parsed |-> None]

\* parseCsv(text) is called on the text of the file
parseCsvCall ==
    /\ page.parsed = None
    /\ page' = [page EXCEPT !.parsed = Some(parseCsv(page.text))]
    /\ last' = Call("parseCsv", IF parseCsv(page.text).throws THEN "rejected" ELSE "ok", NoOp)
    /\ UNCHANGED <<inMemoryStore, slot, published, storageOk, idCount, ops>>

CsvSpec == CsvInit /\ [][parseCsvCall]_vars

\* the rows of data that are no empty row: a field of one of them has content
\* that is not white space
NonEmptyData(data) ==
    filterAt(data, 1, { i \in 1..Len(data) :
                          trim(data[i].front) # << >> \/ trim(data[i].back) # << >> })

\* C26: parseCsv returns the content of quoted fields with their commas and
\* line breaks, a doubled quote as one quote; it reads the first non-empty
\* row as the header and returns one card for every later non-empty row; the
\* file of the import test yields its two cards
C26_CsvQuotedFields ==
    page.parsed # None =>
        /\ \A data \in CsvData, eol \in EndOfLine :
              page.text = quotedFile(data, eol)
                  => /\ ~page.parsed[1].throws
                     /\ page.parsed[1].cards = NonEmptyData(data)
        /\ page.text = TestCsv
              => page.parsed[1].cards =
                    << [front |-> << "Greeting", Comma, " ", "friendly" >>,
                        back |-> << "Hello", Comma, " ", Quote, "friend", Quote, "!" >>],
                       [front |-> << "Affirmation" >>, back |-> << "You are capable" >>] >>

\* the file of the import test was parsed into two cards
C26_Witness ==
    /\ page.text = TestCsv
    /\ page.parsed # None
    /\ Len(page.parsed[1].cards) = 2
    /\ page.parsed[1].cards[1].front = << "Greeting", Comma, " ", "friendly" >>

----------------------------------------------------------------------------
(* Import and export page *)

DEFAULT_DECK_TITLE == << "Imported deck" >>

\* decks[0]?.id ?? ""
firstDeckId(decks) == IF decks = << >> THEN 0 ELSE decks[1].id

\* the front and back of every card, in order
FrontBack(cards) == [i \in 1..Len(cards) |-> [front |-> cards[i].front, back |-> cards[i].back]]

\* sanitizedCards(raw): front and back trimmed, cards with an empty side dropped
sanitizedCards(raw) ==
    LET trimmed == [i \in 1..Len(raw) |-> [front |-> trim(raw[i].front),
                                          back |-> trim(raw[i].back)]]
    IN  filterAt(trimmed, 1, { i \in 1..Len(trimmed) :
                                 Len(trimmed[i].front) > 0 /\ Len(trimmed[i].back) > 0 })

\* the file handleExportJson downloads for deck and its cards; JSON.stringify
\* leaves out a description that is undefined
exportJson(deck, cards) ==
    [kind |-> "json", name |-> deck.title,
     deck |-> [id |-> Some(deck.id), title |-> deck.title, description |-> deck.description],
     cards |-> [i \in 1..Len(cards) |->
                  [id |-> Some(cards[i].id), front |-> cards[i].front, back |-> cards[i].back]]]

\* importJsonSchema.parse on the value of a JSON file
importJsonSchema(file) ==
    IF Len(file.deck.title) < 1 \/ Len(file.cards) < 1
    THEN [throws |-> TRUE]
    ELSE [throws |-> FALSE,
          deck |-> [id |-> file.deck.id,
                    title |-> trim(file.deck.title),
                    description |->
                        IF file.deck.description = None THEN None
                        ELSE IF trim(file.deck.description[1]) = << >> THEN None
                        ELSE Some(trim(file.deck.description[1]))],
          cards |-> file.cards]

\* a || b on strings
OrElse(a, b) == IF falsy(a) THEN b ELSE a

\* the page once resetImportState has run, decks being those of this render
resetImportState(p, decks) ==
    [p EXCEPT !.preview = None, !.manualTitle = << >>, !.manualDescription = << >>,
              !.importMode = "new", !.mergeDeckId = firstDeckId(decks)]

\* the page once parseJson or parseCsvFile has set the preview
withPreview(p, decks, title, description, cards, source) ==
    [p EXCEPT !.preview = Some([deckTitle |-> title, deckDescription |-> description,
                                cards |-> cards, source |-> source]),
              !.manualTitle = title,
              !.manualDescription = OrEmpty(description),
              !.importMode = "new",
              !.mergeDeckId = firstDeckId(decks)]

\* parseJson(text, filename): the page, or a throw
parseJson(p, decks, file) ==
    LET parsed == importJsonSchema(file)
    IN  IF parsed.throws THEN [throws |-> TRUE]
        ELSE IF sanitizedCards(FrontBack(parsed.cards)) = << >> THEN [throws |-> TRUE]
        ELSE [throws |-> FALSE,
              page |-> withPreview(p, decks, OrElse(parsed.deck.title, DEFAULT_DECK_TITLE),
                                   parsed.deck.description,
                                   sanitizedCards(FrontBack(parsed.cards)), "json")]

\* parseCsvFile(text, filename): the page, or a throw
parseCsvFile(p, decks, file) ==
    LET rows == parseCsv(file.text)
    IN  IF rows.throws THEN [throws |-> TRUE]
        ELSE IF sanitizedCards(rows.cards) = << >> THEN [throws |-> TRUE]
        ELSE [throws |-> FALSE,
              page |-> withPreview(p, decks, OrElse(file.name, DEFAULT_DECK_TITLE), None,
                                   sanitizedCards(rows.cards), "csv")]

\* files from elsewhere: the CSV file of the import test, a CSV file without
\* the back column, a JSON file with an untrimmed card and a blank one, a JSON
\* file without cards
OtherFiles ==
    { [kind |-> "csv", name |-> << "phrases" >>, text |-> TestCsv],
      [kind |-> "csv", name |-> << "phrases" >>, text |-> << "front", LF, "Affirmation" >>],
      [kind |-> "json", name |-> << "deck" >>,
       deck |-> [id |-> None, title |-> << " ", "Calm Flow", " " >>,
                 description |-> Some(<< " " >>)],
       cards |-> << [id |-> None, front |-> << " ", "Front prompt" >>,
                     back |-> << "Back response", " " >>],
                    [id |-> None, front |-> << " " >>, back |-> << "Back response" >>] >>],
      [kind |-> "json", name |-> << "deck" >>,
       deck |-> [id |-> None, title |-> << "Calm Flow" >>, description |-> None],
       cards |-> << >>] }

\* the page is mounted: the useState initial values
ImportInit ==
    /\ StoreInit(EditorSlots)
    /\ page = [name |-> "ImportExport",
               selectedDeckId |-> firstDeckId(published.decks),
               importMode |-> "new",
               mergeDeckId |-> firstDeckId(published.decks),
               preview |-> None, manualTitle |-> << >>, manualDescription |-> << >>,
               importError |-> None, download |-> None,
               isParsing |-> FALSE, reads |-> << >>]

\* the record of a page handler that ran
PageCall(op, outcome, args) == [args EXCEPT !.op = op, !.outcome = outcome]

\* a handler of the page ran that does not call the store; the explored
\* sessions end with the MaxOps-th confirmed import
ImportStep(op, outcome, args, p) ==
    /\ ops < MaxOps
    /\ page' = p
    /\ last' = PageCall(op, outcome, args)
    /\ UNCHANGED <<inMemoryStore, slot, published, storageOk, idCount, ops>>

setSelectedDeckId(deckId) ==
    /\ deckId # page.selectedDeckId
    /\ ImportStep("setSelectedDeckId", "ok", NoOp, [page EXCEPT !.selectedDeckId = deckId])

handleExportJson ==
    LET i == FindDeck(published.decks, page.selectedDeckId)
    IN  /\ i # 0
        /\ ImportStep("handleExportJson", "ok", NoOp,
                      [page EXCEPT !.download =
                          Some(exportJson(published.decks[i],
                                          CardsOf(published.cardsByDeck,
                                                  page.selectedDeckId)))])

\* the most reads of a file in flight at a time
MaxReads == 2

\* handleFileChange up to its await: the error is cleared, isParsing is set
\* and readFileText(file) is in flight; reads holds the files being read
handleFileChange(file) ==
    /\ Len(page.reads) < MaxReads
    /\ ImportStep("handleFileChange", "reading", [NoOp EXCEPT !.file = Some(file)],
                  [page EXCEPT !.importError = None, !.isParsing = TRUE,
                               !.reads = Append(@, file)])

\* the k-th read in flight resolves and handleFileChange runs on from its
\* await: the text is parsed, the preview or the error is set, and the finally
\* block runs setIsParsing(false)
fileRead(k) ==
    LET file == page.reads[k]
        left == RemoveAt(page.reads, k)
        result == IF file.kind = "json" THEN parseJson(page, published.decks, file)
                  ELSE parseCsvFile(page, published.decks, file)
        args == [NoOp EXCEPT !.file = Some(file)]
        done == IF result.throws
                THEN [resetImportState(page, published.decks)
                         EXCEPT !.importError = Some("parse")]
                ELSE result.page
    IN  ImportStep("fileRead", IF result.throws THEN "rejected" ELSE "ok", args,
                   [done EXCEPT !.reads = left, !.isParsing = FALSE])

setImportMode(mode) ==
    /\ page.preview # None
    /\ mode # page.importMode
    /\ ImportStep("setImportMode", "ok", NoOp, [page EXCEPT !.importMode = mode])

setMergeDeckId(deckId) ==
    /\ page.preview # None
    /\ deckId # page.mergeDeckId
    /\ ImportStep("setMergeDeckId", "ok", NoOp, [page EXCEPT !.mergeDeckId = deckId])

\* one call of a useStore action made while handleConfirmImport runs; st holds
\* the in-memory store, the slot, the published state, the number of
\* generateId() calls, the number of store calls made and the outcome of the
\* last of them. One call of a useStore action whose mutator returned draft after one
\* generateId() call; the setItem of call number failAt throws
storeCall(st, draft, failAt) ==
    LET mem == normalizeStore(draft)
        writeOk == st.calls + 1 # failAt
        outcome == persistOutcome(mem, storageOk, writeOk)
    IN  [mem |-> mem,
         slot |-> persistSlot(mem, st.slot, storageOk, writeOk),
         pub |-> IF outcome = "ok" THEN mem ELSE st.pub,
         n |-> st.n + 1,
         calls |-> st.calls + 1,
         outcome |-> outcome]

\* preview.cards.forEach((card) => addCard(deckId, card)) from card k on; a
\* call that throws ends the loop
RECURSIVE addCards(_, _, _, _, _, _)
addCards(st, deckId, cards, k, now, failAt) ==
    IF k > Len(cards) \/ st.outcome # "ok" THEN st
    ELSE LET front == trim(cards[k].front)
             back == trim(cards[k].back)
             i == FindDeck(st.mem.decks, deckId)
         IN  IF falsy(front) \/ falsy(back) \/ i = 0
             THEN [st EXCEPT !.outcome = "rejected"]
             ELSE addCards(storeCall(st,
                                     addCardDraft(st.mem, i,
                                                  Card(generateId(st.n), front, back), now),
                                     failAt),
                           deckId, cards, k + 1, now, failAt)

\* a mutant of mergeTarget: the first deck is the target whatever was selected
mergeTargetFirst(mergeDeckId, decks) == firstDeckId(decks)

\* mergeDeckId || decks[0]?.id
mergeTarget(mergeDeckId, decks) ==
    IF mergeDeckId # 0 THEN mergeDeckId ELSE firstDeckId(decks)

\* the store and the page once handleConfirmImport has returned or thrown
confirmed(st, args) ==
    /\ inMemoryStore' = st.mem
    /\ slot' = st.slot
    /\ published' = st.pub
    /\ idCount' = st.n
    /\ last' = PageCall("handleConfirmImport", st.outcome, args)
    /\ page' = IF st.outcome = "ok"
               THEN resetImportState([page EXCEPT !.importError = None], published.decks)
               ELSE [page EXCEPT !.importError = None]

handleConfirmImport ==
    /\ page.preview # None
    /\ ~page.isParsing
    /\ ~(page.importMode = "merge" /\ page.mergeDeckId = 0)
    /\ ops < MaxOps
    /\ ops' = ops + 1
    /\ UNCHANGED storageOk
    /\ \E now \in Times, failAt \in 0..(Len(page.preview[1].cards) + 1) :
        LET start == [mem |-> inMemoryStore, slot |-> slot, pub |-> published,
                      n |-> idCount, calls |-> 0, outcome |-> "ok"]
        IN
        /\ storageOk \/ failAt = 0
        /\ IF page.importMode = "merge"
           THEN LET target == mergeTarget(page.mergeDeckId, published.decks)
                IN  /\ failAt <= Len(page.preview[1].cards)
                    /\ confirmed(addCards(start, target, page.preview[1].cards, 1,
                                          now, failAt),
                                 [NoOp EXCEPT !.deckId = target, !.now = now,
                                              !.reason = "merge"])
           ELSE LET title == OrElse(trim(page.manualTitle),
                                    OrElse(page.preview[1].deckTitle, DEFAULT_DECK_TITLE))
                    description == trim(page.manualDescription)
                    id == generateId(idCount)
                    deck == Deck(id, trim(title),
                                 IF Len(description) > 0 THEN trimOrUndefined(Some(description))
                                 ELSE None,
                                 Iso(now), Iso(now))
                    created == storeCall(start, createDeckDraft(inMemoryStore, deck),
                                         failAt)
                IN  confirmed(addCards(created, id, page.preview[1].cards, 1, now, failAt),
                              [NoOp EXCEPT !.deckId = id, !.newId = id, !.now = now,
                                           !.reason = "new"])

ImportNext ==
    \/ \E deckId \in DeckIds(published) : setSelectedDeckId(deckId)
    \/ handleExportJson
    \/ \E file \in OtherFiles : handleFileChange(file)
    \/ page.download # None /\ handleFileChange(page.download[1])
    \/ \E k \in 1..Len(page.reads) : fileRead(k)
    \/ \E mode \in { "new", "merge" } : setImportMode(mode)
    \/ \E deckId \in DeckIds(published) : setMergeDeckId(deckId)
    \/ handleConfirmImport

ImportSpec == ImportInit /\ [][ImportNext]_vars

\* C25: the file exported for a deck of the store is accepted by the import
\* with the front and back of the deck's cards in their order, and confirming
\* that import as a new deck creates a deck with those cards
C25_JsonRoundTrip ==
    [][/\ (Handled("fileRead") /\ page.download # None
              /\ last'.file = page.download)
          => /\ page'.preview # None
             /\ page'.importMode = "new"
             /\ page'.preview[1].cards = FrontBack(page.download[1].cards)
       /\ (Handled("handleConfirmImport") /\ last'.outcome = "ok" /\ last'.reason = "new")
          => /\ last'.newId \in DeckIds(inMemoryStore') \ DeckIds(inMemoryStore)
             /\ FrontBack(CardsOf(inMemoryStore'.cardsByDeck, last'.newId))
                   = page.preview[1].cards]_vars

\* C27: a merge that succeeds appends the previewed cards, in their order, to
\* the cards of the selected deck, leaves those cards and the title and
\* description of the deck as they were, leaves the other decks' cards alone
\* and creates no deck
C27_MergeAppends ==
    [][(Handled("handleConfirmImport") /\ last'.outcome = "ok" /\ last'.reason = "merge")
        => LET T == last'.deckId
               before == CardsOf(inMemoryStore.cardsByDeck, T)
               after == CardsOf(inMemoryStore'.cardsByDeck, T)
               cards == page.preview[1].cards
           IN  /\ T = page.mergeDeckId
               /\ Len(after) = Len(before) + Len(cards)
               /\ SubSeq(after, 1, Len(before)) = before
               /\ FrontBack(SubSeq(after, Len(before) + 1, Len(after))) = cards
               /\ DeckIds(inMemoryStore') = DeckIds(inMemoryStore)
               /\ Len(inMemoryStore'.decks) = Len(inMemoryStore.decks)
               /\ DeckWithId(inMemoryStore', T).title = DeckWithId(inMemoryStore, T).title
               /\ DeckWithId(inMemoryStore', T).description
                     = DeckWithId(inMemoryStore, T).description
               /\ \A d \in DeckIds(inMemoryStore) \ {T} :
                     CardsOf(inMemoryStore'.cardsByDeck, d)
                        = CardsOf(inMemoryStore.cardsByDeck, d)]_vars

\* the two cards of the CSV file were merged into the deck that had two cards,
\* which is not the first deck
C27_Witness ==
    /\ last.op = "handleConfirmImport"
    /\ last.outcome = "ok"
    /\ last.reason = "merge"
    /\ last.deckId = DeckStudy
    /\ firstDeckId(inMemoryStore.decks) # DeckStudy
    /\ Len(CardsOf(inMemoryStore.cardsByDeck, DeckStudy)) = 4
    /\ CardsOf(inMemoryStore.cardsByDeck, DeckStudy)[1].id = CardOne
    /\ CardsOf(inMemoryStore.cardsByDeck, DeckStudy)[3].front
          = << "Greeting", Comma, " ", "friendly" >>
    /\ CardsOf(inMemoryStore.cardsByDeck, DeckStudy)[4].front = << "Affirmation" >>

----------------------------------------------------------------------------
(* Failed updates *)

\* C31: updateCard given a front that is not empty after trimming together
\* with a back that is, and updateDeck given a title that is empty after
\* trimming together with a description, on a deck and a card of the store,
\* throw and leave the in-memory store (the card's front, the deck's
\* description and updatedAt with it), the durable slot and the published
\* state as they were
C31_FailedUpdateAppliesNothing ==
    [][(/\ ops' = ops + 1
        /\ last'.deckId \in DeckIds(inMemoryStore)
        /\ \/ /\ last'.op = "updateCard"
              /\ last'.cardId \in CardIdsOf(inMemoryStore, last'.deckId)
              /\ last'.front # None /\ ~IsBlank(last'.front[1])
              /\ last'.back # None /\ IsBlank(last'.back[1])
           \/ /\ last'.op = "updateDeck"
              /\ last'.title # None /\ IsBlank(last'.title[1])
              /\ last'.description # None)
          => (last'.outcome = "rejected" /\ NothingChanged)]_vars

\* updateCard was called on a card of the store with a new front and a back
\* of one space
C31_Witness ==
    /\ last.op = "updateCard"
    /\ last.outcome = "rejected"
    /\ last.reason = "empty"
    /\ last.cardId \in CardIdsOf(inMemoryStore, last.deckId)
    /\ last.front = Some(<< " ", "Front prompt", " " >>)
    /\ last.back = Some(<< " " >>)

----------------------------------------------------------------------------
(* Engine, slot and published state *)

\* the operations of the store, as opposed to the writes of another tab
StoreOps == MutatingOps \cup {"refresh"}

\* C32: with durable storage available and every setItem succeeding, a store
\* operation that starts with the slot holding the record of the in-memory
\* store ends, returning or throwing, with the slot holding the record of the
\* in-memory store
C32_SlotFollowsMemory ==
    [][(/\ storageOk
        /\ ops' = ops + 1
        /\ last'.op \in StoreOps
        /\ last'.outcome # "writeFailed"
        /\ last'.reason # "quota"
        /\ Written(slot, inMemoryStore))
          => Written(slot', inMemoryStore')]_vars

\* C33: after any sequence of calls of the store's operations the decks,
\* cardsByDeck and settings published by useStore are those of the in-memory
\* store
C33_PublishedIsMemory == published = inMemoryStore

----------------------------------------------------------------------------
(* Frame *)

\* the ids and creation instants of decks, and the ids of cards, in order
DeckKeys(decks) == [i \in 1..Len(decks) |-> << decks[i].id, decks[i].createdAt >>]
CardKeys(cards) == [j \in 1..Len(cards) |-> cards[j].id]

\* new is old with elements appended, or old with one element removed
Kept(old, new) ==
    \/ Len(new) >= Len(old) /\ SubSeq(new, 1, Len(old)) = old
    \/ \E k \in 1..Len(old) : new = RemoveAt(old, k)

----------------------------------------------------------------------------
(* Copies: which objects a caller shares with the engine *)

\* An object of a store: the store object itself, its decks array, a deck
\* (j its place in decks), the cardsByDeck object, the card array of deck d,
\* a card (the j-th of deck d), the settings object.
Obj(kind, d, j) == [kind |-> kind, d |-> d, j |-> j]

ObjectsOf(store) ==
    { Obj(k, 0, 0) : k \in {"store", "decks", "cardsByDeck", "settings"} }
    \cup { Obj("deck", 0, i) : i \in 1..Len(store.decks) }
    \cup { Obj("cards", d, 0) : d \in DOMAIN store.cardsByDeck }
    \cup UNION { { Obj("card", d, j) : j \in 1..Len(store.cardsByDeck[d]) } :
                  d \in DOMAIN store.cardsByDeck }

\* a mutant of cloneStore: the arrays are copied, the decks and cards in them
\* are not
cloneStoreShallow(objects) == { o \in objects : o.kind \in {"deck", "card"} }

\* cloneStore(store): of the objects of store, those that are also objects of
\* the store it returns. The store, cardsByDeck and settings objects are new
\* literals, the arrays come from map, every deck and card from a spread, and
\* their fields are strings and booleans.
cloneStore(objects) ==
    { o \in objects :
        o.kind \notin {"store", "decks", "deck", "cardsByDeck", "cards", "card", "settings"} }

\* snapshot(): cloneStore(inMemoryStore)
snapshot(store) == cloneStore(ObjectsOf(store))

\* the caller holds what the last call returned: the objects it can reach
\* there, and which of them are objects of inMemoryStore
Returned(objects, shared) ==
    [name |-> "caller", returned |-> objects, shared |-> shared \cap objects]

CallerInit ==
    /\ StoreInit(EditorSlots)
    /\ page = Returned({}, {})

\* a read of the store: op returned objects, of which shared are the engine's
CallerRead(op, objects, shared) ==
    /\ page' = Returned(objects, shared)
    /\ last' = Call(op, "ok", NoOp)
    /\ UNCHANGED <<inMemoryStore, slot, published, storageOk, idCount, ops>>

loadStoreCall == CallerRead("loadStore", ObjectsOf(inMemoryStore), snapshot(inMemoryStore))

\* [...loadStore().decks].sort(...): a new array of the snapshot's decks
listDecksCall ==
    CallerRead("listDecks",
               { o \in ObjectsOf(inMemoryStore) : o.kind \in {"decks", "deck"} },
               { o \in snapshot(inMemoryStore) : o.kind = "deck" })

\* { ...deck } of the deck found in loadStore().decks, or undefined
getDeckCall(deckId) ==
    CallerRead("getDeck",
               { o \in ObjectsOf(inMemoryStore) :
                   o.kind = "deck" /\ o.j = FindDeck(inMemoryStore.decks, deckId) },
               {})

\* (loadStore().cardsByDeck[deckId] ?? []).map((card) => ({ ...card }))
listCardsCall(deckId) ==
    CallerRead("listCards",
               { o \in ObjectsOf(inMemoryStore) :
                   (o.kind = "cards" /\ o.d = deckId) \/ (o.kind = "card" /\ o.d = deckId) }
               \cup { Obj("cards", deckId, 0) },
               {})

\* a mutating operation returns { store: snapshot(), result }, result a JSON
\* copy of what the mutator returned; when it throws it returns nothing
mutationCall ==
    /\ \/ \E id \in DeckIdArgs, changes \in DeckChanges : updateDeck(id, changes[1], changes[2])
       \/ \E id \in DeckIdArgs, f \in FrontInputs, b \in BackInputs : addCard(id, f, b)
    /\ page' = IF last'.outcome = "ok"
               THEN Returned(ObjectsOf(inMemoryStore'), snapshot(inMemoryStore'))
               ELSE Returned({}, {})

\* store with the object o of it changed in place
changeAt(store, o) ==
    CASE o.kind = "deck" -> [store EXCEPT !.decks[o.j].title = Str("Changed")]
      [] o.kind = "card" -> [store EXCEPT !.cardsByDeck[o.d][o.j].front = Str("Changed")]
      [] o.kind = "cards" -> [store EXCEPT !.cardsByDeck[o.d] = << >>]
      [] o.kind = "settings" -> [store EXCEPT !.settings.reducedMotion = ~@]
      [] o.kind = "cardsByDeck" -> [store EXCEPT !.cardsByDeck = EmptyCards]
      [] OTHER -> [store EXCEPT !.decks = << >>]

\* the caller assigns to a field, or changes the length, of an object it was
\* returned; the engine's store changes when that object is the engine's
changeInPlace(o) ==
    /\ o \in page.returned
    /\ inMemoryStore' = IF o \in page.shared THEN changeAt(inMemoryStore, o)
                        ELSE inMemoryStore
    /\ last' = [Call("changeInPlace", "ok", NoOp) EXCEPT !.reason = o.kind]
    /\ UNCHANGED <<slot, published, storageOk, idCount, ops, page>>

CallerNext ==
    \/ loadStoreCall
    \/ listDecksCall
    \/ \E id \in DeckIdArgs : getDeckCall(id)
    \/ \E id \in DeckIdArgs : listCardsCall(id)
    \/ mutationCall
    \/ \E o \in page.returned : changeInPlace(o)

CallerSpec == CallerInit /\ [][CallerNext]_vars

----------------------------------------------------------------------------
(* Study session and the store *)

\* a and b hold the same ids, each as many times
SameIds(a, b) ==
    /\ Len(a) = Len(b)
    /\ \A i \in 1..Len(a) :
          Cardinality({ j \in 1..Len(a) : a[j] = a[i] })
              = Cardinality({ j \in 1..Len(b) : b[j] = a[i] })

\* C36: in a study session, after any sequence of next, previous, flip,
\* restart, mode changes and changes of the store through its actions, the
\* session order is a permutation of the ids of the cards the deck has in
\* useStore, the current index is below the number of cards when the deck has
\* cards, and the card shown is then one of the deck's cards
C36_SessionFollowsDeck ==
    /\ SameIds(page.sessionOrder, cardOrder)
    /\ Len(StudyCards) >= 1
          => /\ page.currentIndex < Len(StudyCards)
             /\ currentCard(page) # None
             /\ \E k \in 1..Len(StudyCards) : currentCard(page) = Some(StudyCards[k])

\* the first card of the deck was deleted while the session, in shuffle mode,
\* was on another position: the session is on the first of the cards left
C36_Witness ==
    /\ last.op = "deleteCard"
    /\ last.outcome = "ok"
    /\ last.deckId = page.deckId
    /\ last.prev.op = "handleNext"
    /\ page.mode = "shuffle"
    /\ Len(StudyCards) >= 1
    /\ page.currentIndex = 0

----------------------------------------------------------------------------
(* Deck editor: a change of route *)

\* C37: when the route has changed to the editor of another deck and nothing
\* was typed since, the debounce timer does not change the store: no
\* updateDeck writes into the new deck what was typed for the deck shown
\* before
C37_EditsStayWithDeck ==
    [][(last.op = "routeChanged" /\ Handled("persistHeader"))
          => inMemoryStore' = inMemoryStore]_vars

----------------------------------------------------------------------------
(* Deck editor page: the card rows *)

\* the most draft rows an explored session holds at a time
MaxDrafts == 1

\* the largest deck the editor's rows are explored on
MaxRowCards == 2

\* what the user types into the front or back field of a row
RowEdits == { << "Edited", " " >> }

\* the row the row-sync effect makes of a card
RowOf(card) ==
    [front |-> card.front, back |-> card.back, isNew |-> FALSE, isDirty |-> FALSE,
     error |-> None]

\* the rows of the cards after the row-sync effect, previous being the rows
\* before: a row is kept when it is not dirty and holds the card's front and
\* back, and made anew from the card otherwise
rowSync(previous, cards) ==
    [id \in { cards[i].id : i \in 1..Len(cards) } |->
        LET card == cardMapGet(cards, id)[1]
        IN  IF /\ id \in DOMAIN previous
               /\ ~previous[id].isDirty
               /\ previous[id].front = card.front
               /\ previous[id].back = card.back
            THEN previous[id]
            ELSE RowOf(card)]

\* the editor is mounted on a deck: rowStates is {} and the row-sync effect
\* runs on the deck's cards; drafts holds the rows whose key starts with
\* "draft-", which the effect carries over
RowsInit ==
    /\ StoreInit(EditorSlots)
    /\ \E deckId \in DeckIds(published) :
          /\ Len(CardsOf(published.cardsByDeck, deckId)) <= MaxRowCards
          /\ page = [name |-> "DeckEditor rows", deckId |-> deckId,
                     rowStates |-> rowSync(EmptyCards,
                                           CardsOf(published.cardsByDeck, deckId)),
                     drafts |-> EmptyCards]

\* the render after a useStore action published: cards is a new array and
\* the row-sync effect runs; an action that threw ended the handler
afterPublish(p) ==
    IF last'.outcome = "ok"
    THEN [p EXCEPT !.rowStates = rowSync(p.rowStates,
                                         CardsOf(published'.cardsByDeck, p.deckId))]
    ELSE page

handleRowChange(field, value) ==
    \/ \E id \in DOMAIN page.rowStates :
          /\ page.rowStates[id][field] # value
          /\ PageStep("handleRowChange",
                      [page EXCEPT !.rowStates[id][field] = value,
                                   !.rowStates[id].isDirty = TRUE,
                                   !.rowStates[id].error = None])
    \/ \E k \in DOMAIN page.drafts :
          /\ page.drafts[k][field] # value
          /\ PageStep("handleRowChange",
                      [page EXCEPT !.drafts[k][field] = value,
                                   !.drafts[k].isDirty = TRUE,
                                   !.drafts[k].error = None])

handleAddRow ==
    \E k \in (1..MaxDrafts) \ DOMAIN page.drafts :
        PageStep("handleAddRow",
                 [page EXCEPT !.drafts =
                     [d \in DOMAIN page.drafts \cup {k} |->
                         IF d = k THEN [front |-> << >>, back |-> << >>, isNew |-> TRUE,
                                        isDirty |-> TRUE, error |-> None]
                         ELSE page.drafts[d]]])

\* the drafts without draft k
withoutDraft(drafts, k) == [d \in DOMAIN drafts \ {k} |-> drafts[d]]

\* the Delete button of a row, the confirm dialog accepted
handleDeleteRow ==
    \/ \E id \in DOMAIN page.rowStates :
          /\ deleteCard(page.deckId, id)
          /\ page' = afterPublish(page)
    \/ \E k \in DOMAIN page.drafts :
          PageStep("handleDeleteRow", [page EXCEPT !.drafts = withoutDraft(page.drafts, k)])

\* the Save button of a row, or Enter in it
handleSaveRow ==
    \/ \E id \in DOMAIN page.rowStates :
          LET row == page.rowStates[id]
              front == trim(row.front)
              back == trim(row.back)
          IN  IF falsy(front) \/ falsy(back)
              THEN PageStep("handleSaveRow",
                            [page EXCEPT !.rowStates[id].error = Some("required")])
              ELSE /\ updateCard(page.deckId, id, Some(front), Some(back))
                   /\ page' = afterPublish(
                                  [page EXCEPT !.rowStates[id] =
                                      [row EXCEPT !.front = front, !.back = back,
                                                  !.isDirty = FALSE, !.error = None]])
    \/ \E k \in DOMAIN page.drafts :
          LET row == page.drafts[k]
              front == trim(row.front)
              back == trim(row.back)
          IN  IF falsy(front) \/ falsy(back)
              THEN PageStep("handleSaveRow",
                            [page EXCEPT !.drafts[k].error = Some("required")])
              ELSE /\ addCard(page.deckId, front, back)
                   /\ page' = afterPublish(
                                  [page EXCEPT !.drafts = withoutDraft(page.drafts, k)])

RowsNext ==
    \/ \E field \in {"front", "back"}, value \in RowEdits : handleRowChange(field, value)
    \/ handleAddRow
    \/ handleDeleteRow
    \/ handleSaveRow

RowsSpec == RowsInit /\ [][RowsNext]_vars

\* C38: when a card of the deck is saved, added or deleted from the editor,
\* the row of every other card of the deck is as it was, unsaved edits in it
\* included
C38_OtherRowsKept ==
    [][(/\ ops' = ops + 1
        /\ last'.op \in {"updateCard", "addCard", "deleteCard"}
        /\ last'.outcome = "ok")
          => \A id \in (DOMAIN page.rowStates \cap DOMAIN page'.rowStates) \ {last'.cardId} :
                page'.rowStates[id] = page.rowStates[id]]_vars

----------------------------------------------------------------------------
(* Import page: files being read *)

\* C39: on the import page isParsing is true, and the Confirm import button
\* with it disabled, whenever the read of a selected file has not finished
C39_ParsingWhileReading == page.reads # << >> => page.isParsing

----------------------------------------------------------------------------
(* Import and export: the CSV export *)

\* escapeCsvValue(value): quotes doubled, and the value between quotes when it
\* holds a quote, a comma or a line feed
escapeCsvValue(value) ==
    LET needsQuotes == \E i \in 1..Len(value) : value[i] \in { Quote, Comma, LF }
        escaped == doubleQuotes(value)
    IN  IF needsQuotes THEN << Quote >> \o escaped \o << Quote >> ELSE escaped

\* formatCsv(cards): the line front,back and one line for each card, joined
\* by line feeds
RECURSIVE formatCsvLines(_)
formatCsvLines(cards) ==
    IF cards = << >> THEN << >>
    ELSE << LF >> \o escapeCsvValue(Head(cards).front) \o << Comma >>
             \o escapeCsvValue(Head(cards).back) \o formatCsvLines(Tail(cards))

formatCsv(cards) == << "front", Comma, "back" >> \o formatCsvLines(cards)

\* fronts and backs that are trimmed and not empty: plain, with a comma, with
\* quotes, with a line feed, with a carriage return
TripFields ==
    { << "Affirmation" >>,
      << "Greeting", Comma, " ", "friendly" >>,
      << Quote, "friend", Quote >>,
      << "Inhale", LF, "exhale" >>,
      << "Inhale", CR, "exhale" >> }

TripCards ==
    UNION { [1..n -> [front : TripFields, back : TripFields]] : n \in 1..MaxRows }

\* the cards of the selected deck, nothing exported yet
TripInit ==
    /\ StoreInit({ AsJson(makeStore) })
    /\ \E cards \in TripCards :
          page = [name |-> "csv", cards |-> cards, text |-> None, parsed |-> None]

\* handleExportCsv: the text of the file is formatCsv of the deck's cards
handleExportCsv ==
    /\ page.text = None
    /\ PageStep("handleExportCsv", [page EXCEPT !.text = Some(formatCsv(page.cards))])

\* the exported text is given to parseCsvFile: parseCsv, then sanitizedCards
importExported ==
    /\ page.text # None
    /\ page.parsed = None
    /\ LET rows == parseCsv(page.text[1])
       IN  PageStep("parseCsvFile",
                    [page EXCEPT !.parsed =
                        Some([throws |-> rows.throws,
                              cards |-> IF rows.throws THEN << >>
                                        ELSE sanitizedCards(rows.cards)])])

TripNext == handleExportCsv \/ importExported

TripSpec == TripInit /\ [][TripNext]_vars

\* C40: for cards whose front and back are trimmed and not empty, over
\* text with commas, double quotes, line feeds and carriage returns, parsing
\* the text of the CSV export and dropping blank cards gives the same cards,
\* front and back, in the same order
C40_CsvRoundTrip ==
    page.parsed # None
        => /\ ~page.parsed[1].throws
           /\ page.parsed[1].cards = page.cards

====
